---------------------------- MODULE Spec2Model ----------------------------
(***************************************************************************)
(* The chat endpoint of the portfolio dashboard (backend/src/routes/       *)
(* chat.ts): request validation, pinned-company lookup, the retrieval      *)
(* cascade (count probe, vector search by RPC or client side, keyword      *)
(* search, blind fallback), context building, completion with one          *)
(* regeneration, and the response.  Each await of the handler is one       *)
(* action; the store and the two providers answer nondeterministically     *)
(* within what they can return.                                            *)
(***************************************************************************)
EXTENDS Integers, Sequences, FiniteSets, TLC

(***************************************************************************)
(* Bounds of the model.                                                    *)
(***************************************************************************)
NCompanies == 3

NReq == 2

(***************************************************************************)
(* Text.  A string is a sequence of one-character strings, so that         *)
(* toLowerCase, split, includes and ilike are computed, not assumed.       *)
(***************************************************************************)
UpperChars == <<"A","B","C","D","E","F","G","H","I","J","K","L","M",
                "N","O","P","Q","R","S","T","U","V","W","X","Y","Z">>

LowerChars == <<"a","b","c","d","e","f","g","h","i","j","k","l","m",
                "n","o","p","q","r","s","t","u","v","w","x","y","z">>

LowerChar(c) ==
    IF \E i \in 1..Len(UpperChars) : UpperChars[i] = c
    THEN LowerChars[CHOOSE i \in 1..Len(UpperChars) : UpperChars[i] = c]
    ELSE c

\* String.prototype.toLowerCase
toLowerCase(s) == [i \in 1..Len(s) |-> LowerChar(s[i])]

\* String.prototype.includes: needle occurs as a contiguous substring
includes(hay, needle) ==
    \E k \in 0..(Len(hay) - Len(needle)) :
        \A j \in 1..Len(needle) : hay[k + j] = needle[j]

IsSpace(c) == c = " "

\* s.split(/\s+/): the pieces between maximal runs of whitespace; a leading
\* or trailing run yields an empty first or last piece, "" yields [""].
RECURSIVE SplitFrom(_, _, _)
SplitFrom(s, i, cur) ==
    IF i > Len(s) THEN <<cur>>
    ELSE IF IsSpace(s[i])
         THEN IF i > 1 /\ IsSpace(s[i - 1])
              THEN SplitFrom(s, i + 1, cur)
              ELSE <<cur>> \o SplitFrom(s, i + 1, <<>>)
         ELSE SplitFrom(s, i + 1, Append(cur, s[i]))

split(s) == SplitFrom(s, 1, <<>>)

\* words.filter((w) => w.length > n)
RECURSIVE LongerThan(_, _)
LongerThan(words, n) ==
    IF words = <<>> THEN <<>>
    ELSE IF Len(Head(words)) > n
         THEN <<Head(words)>> \o LongerThan(Tail(words), n)
         ELSE LongerThan(Tail(words), n)

\* Array.prototype.slice(0, n)
slice(seq, n) == SubSeq(seq, 1, IF n < Len(seq) THEN n ELSE Len(seq))

Range(seq) == {seq[i] : i \in 1..Len(seq)}


(***************************************************************************)
(* JSON values of the request body.                                        *)
(***************************************************************************)
Undefined == [t |-> "undefined"]

JsonNull == [t |-> "null"]

Str(v) == [t |-> "string", v |-> v]

Num(n) == [t |-> "number", v |-> n]

(***************************************************************************)
(* The companies table.  Company i has id i and the unique slug <<"c", i>>;*)
(* a NULL column is the value Null.                                        *)
(***************************************************************************)
Ids == 1..NCompanies

Null == <<"NULL">>

SlugOf(i) == <<"c", i>>

NoSuchSlug == <<"x", 0>>

Company(i) ==
    CASE i = 1 -> [id |-> 1, slug |-> SlugOf(1), name |-> <<"A","c","m","e">>,
                   description |-> <<"b","o","t">>,
                   radical_primary_category |-> <<"A","I">>]
      [] i = 2 -> [id |-> 2, slug |-> SlugOf(2), name |-> <<"B","o","l","t">>,
                   description |-> Null,
                   radical_primary_category |-> Null]
      [] i = 3 -> [id |-> 3, slug |-> SlugOf(3), name |-> <<"C","o","r","a">>,
                   description |-> <<"a","c","m","e"," ","a","i">>,
                   radical_primary_category |-> <<"B","i","o">>]
      [] OTHER -> [id |-> i, slug |-> SlugOf(i), name |-> <<"D","y","n">>,
                   description |-> <<"d","a","t","a">>,
                   radical_primary_category |-> <<"A","I">>]

\* The stored 'description' embedding of company i (company_embeddings.embedding)
StoredEmbedding(i) ==
    CASE i = 1 -> <<1, 0>>
      [] i = 2 -> <<0, 1>>
      [] i = 3 -> <<1, 1>>
      [] OTHER -> <<2, 1>>

\* column ILIKE '%token%': case-insensitive containment, never true of NULL
ilike(column, token) ==
    column # Null /\ includes(toLowerCase(column), toLowerCase(token))

\* name.ilike.%t%,description.ilike.%t%,radical_primary_category.ilike.%t%
KeywordMatch(c, token) ==
    \/ ilike(c.name, token)
    \/ ilike(c.description, token)
    \/ ilike(c.radical_primary_category, token)

(***************************************************************************)
(* Numbers.  Distances and similarities are fixed-point, in thousandths.   *)
(***************************************************************************)
\* NaN is a value outside the range of every similarity and distance
NaN == 0 - 1000000

match_threshold == 500

KeywordDistanceNoEmbeddings == 900

KeywordDistance == 800

FallbackDistance == 1000

FallbackLimit == 30

DefaultTopK == 5

MinTopK == 1

MaxTopK == 10

RECURSIVE SumTo(_, _)
SumTo(f, n) == IF n = 0 THEN 0 ELSE f[n] + SumTo(f, n - 1)

Dot(a, b) == SumTo([i \in 1..Len(a) |-> a[i] * b[i]], Len(a))

\* floor(1000 * dot / (sqrt(normA) * sqrt(normB))), NaN when a norm is zero
Similarity(a, b) ==
    LET dot == Dot(a, b)
        nn  == Dot(a, a) * Dot(b, b)
        x   == 1000000 * dot * dot
        mag == CHOOSE s \in 0..1000 : s * s * nn <= x /\ (s + 1) * (s + 1) * nn > x
    IN  IF nn = 0 THEN NaN
        ELSE IF dot >= 0 THEN mag
        ELSE IF mag * mag * nn = x THEN 0 - mag ELSE 0 - mag - 1

\* cosineDistance(a, b) = 1 - similarity; the caller guarantees equal lengths
cosineDistance(a, b) ==
    LET similarity == Similarity(a, b)
    IN  IF similarity = NaN THEN NaN ELSE 1000 - similarity

\* a < b on numbers, false when either is NaN
NumLess(a, b) == a # NaN /\ b # NaN /\ a < b

\* arr.sort((a, b) => a.distance - b.distance): stable, ascending
RECURSIVE InsertByDistance(_, _)
InsertByDistance(sorted, x) ==
    IF sorted = <<>> THEN <<x>>
    ELSE IF x.distance < Head(sorted).distance
         THEN <<x>> \o sorted
         ELSE <<Head(sorted)>> \o InsertByDistance(Tail(sorted), x)

RECURSIVE SortByDistance(_)
SortByDistance(seq) ==
    IF seq = <<>> THEN <<>>
    ELSE InsertByDistance(SortByDistance(SubSeq(seq, 1, Len(seq) - 1)), seq[Len(seq)])

(***************************************************************************)
(* State.  companies is the companies table in heap order (the ids of its  *)
(* rows); embedded is the set of companies that have a row of source       *)
(* 'description' in company_embeddings (company_id references companies);  *)
(* env is what the outside can send and answer (request bodies, whether a  *)
(* store call is answered, the providers' results); req[r] is the state of  *)
(* the handler run for request r.  The other entry points have their own   *)
(* state: decoder is the decoding of one fetched embedding, summary the run *)
(* of GET /api/insights/summary, listing the run of GET /api/companies,    *)
(* importer the tables and the run of the import script, copilot the       *)
(* CopilotChat component of the client with its calls in flight.          *)
(***************************************************************************)
VARIABLES companies, embedded, env, req, decoder, summary, listing, importer, copilot

vars == <<companies, embedded, env, req, decoder, summary, listing, importer, copilot>>

\* The state of the entry points other than the chat handler
elsewhere == <<decoder, summary, listing, importer, copilot>>

\* An entry point that is not running
Off == [pc |-> "off"]

ElsewhereOff == decoder = Off /\ summary = Off /\ listing = Off /\ importer = Off /\ copilot = Off

Reqs == 1..NReq

\* company: undefined (companies.find found nothing)
NoCompany == 0

\* The rows 1..k in heap order, starting at row j + 1 and wrapping around
Rotation(k, j) == [p \in 1..k |-> ((p + j - 1) % k) + 1]

\* The tables the model starts from: any number of rows, any row first
Tables == {<<>>} \cup {Rotation(k, j) : k \in 1..NCompanies, j \in 0..(NCompanies - 1)}

\* The embedding tables the model starts from, given the companies: none
\* embedded, all embedded, or all but company 1
EmbeddedSets(rows) == {{}, Range(rows), Range(rows) \ {1}}

SelectIds(Keep(_)) == SelectSeq(companies, Keep)

(***************************************************************************)
(* The store's answers, computed from the tables.                          *)
(***************************************************************************)
\* from('companies').select('*').eq('slug', slug).single()
SelectBySlug(slug) ==
    LET rows == SelectIds(LAMBDA i : Company(i).slug = slug)
    IN  IF Len(rows) = 1 THEN [error |-> FALSE, data |-> rows[1]]
        ELSE [error |-> TRUE, data |-> NoCompany]

\* from('company_embeddings').select('*', {count: 'exact', head: true}).eq('source', 'description')
CountEmbeddings == Cardinality(embedded)

\* from('companies').select('*').or(name/description/category ilike %token%).limit(n)
KeywordRows(token, n) ==
    slice(SelectIds(LAMBDA i : KeywordMatch(Company(i), token)), n)

\* Variant: the blind fallback reads the whole table
AllRows_Unbounded(n) == companies

\* from('companies').select('*').limit(n)
AllRows(n) == slice(companies, n)

\* from('company_embeddings').select('company_id, embedding').eq('source', 'description')
EmbeddingRows ==
    LET ids == SelectIds(LAMBDA i : i \in embedded)
    IN  [k \in 1..Len(ids) |-> [company_id |-> ids[k], embedding |-> StoredEmbedding(ids[k])]]

\* from('companies').select('*').in('id', ids)
CompaniesIn(ids) == SelectIds(LAMBDA i : i \in ids)

\* search_similar_companies(query_embedding, match_threshold, match_count):
\*   SELECT c.*, 1 - (ce.embedding <=> q) AS distance ... JOIN companies c
\*   WHERE 1 - (ce.embedding <=> q) > match_threshold
\*   ORDER BY ce.embedding <=> q  LIMIT match_count
search_similar_companies(q, threshold, match_count) ==
    LET rows   == EmbeddingRows
        scored == [k \in 1..Len(rows) |->
                     [company |-> rows[k].company_id,
                      distance |-> cosineDistance(rows[k].embedding, q)]]
        kept   == SelectSeq(scored, LAMBDA s : NumLess(threshold, 1000 - s.distance))
        sorted == slice(SortByDistance(kept), match_count)
    IN  [k \in 1..Len(sorted) |->
           [company |-> sorted[k].company, distance |-> 1000 - sorted[k].distance]]

(***************************************************************************)
(* Inputs: request bodies, and what the two providers can answer.          *)
(***************************************************************************)
MessageInputs ==
    { Undefined, Num(42), Str(<<>>),
      Str(<<"a","i">>),
      Str(<<"b","o","t">>),
      Str(<<"A","C","M","E"," ","a","i">>),
      Str(<<" ","z","z","z","z">>) }

SlugInputs == { Undefined, Str(<<>>), Str(SlugOf(1)), Str(NoSuchSlug), Num(7) }

TopKInputs == { Undefined, Num(0 - 1), Num(0), Num(1), Num(11) }

Bodies == [message : MessageInputs, selectedCompanySlug : SlugInputs, topK : TopKInputs]

\* generateEmbedding's possible results
QueryVectors == { <<1, 0>>, <<1, 2>>, <<0, 0 - 1>> }

\* generateChatCompletion's possible results
Replies ==
    { <<"A","c","m","e">>,
      <<"a","m"," ","d">>,
      <<"x","A","m","D">> }

forbiddenExamples ==
    << <<"n","v","i","d","i","a">>, <<"g","o","o","g","l","e">>,
       <<"m","i","c","r","o","s","o","f","t">>, <<"a","m","a","z","o","n">>,
       <<"i","n","t","e","l">>, <<"a","m","d">>, <<"o","p","e","n","a","i">>,
       <<"a","n","t","h","r","o","p","i","c">>, <<"m","e","t","a">>,
       <<"f","a","c","e","b","o","o","k">>, <<"a","p","p","l","e">>,
       <<"t","e","s","l","a">> >>

\* Variant: the scan is case-sensitive
Hallucinated_CaseSensitive(answer) ==
    SelectSeq(forbiddenExamples, LAMBDA name : includes(answer, name))

\* forbiddenExamples.filter((name) => answer.toLowerCase().includes(name))
Hallucinated(answer) ==
    SelectSeq(forbiddenExamples, LAMBDA name : includes(toLowerCase(answer), name))

(***************************************************************************)
(* chatRequestSchema.safeParse(req.body)                                   *)
(***************************************************************************)
\* Variant: the schema lacks .min(1)
ValidMessage_AnyString(m) == m.t = "string"

ValidMessage(m) == m.t = "string" /\ Len(m.v) >= 1

ValidSlug(s) == s.t \in {"string", "null", "undefined"}

\* Variant: the schema lacks .min(1)
ValidTopK_NoMin(k) == k.t = "undefined" \/ (k.t = "number" /\ k.v <= MaxTopK)

ValidTopK(k) == k.t = "undefined" \/ (k.t = "number" /\ k.v >= MinTopK /\ k.v <= MaxTopK)

SafeParseSuccess(body) ==
    ValidMessage(body.message) /\ ValidSlug(body.selectedCompanySlug) /\ ValidTopK(body.topK)

ParsedTopK(k) == IF k.t = "undefined" THEN DefaultTopK ELSE k.v

\* if (selectedCompanySlug): a non-empty string
Truthy(s) == s.t = "string" /\ s.v # <<>>

(***************************************************************************)
(* The handler's local state and its synchronous stretches.                *)
(***************************************************************************)
IdleReq ==
    [pc |-> "idle", body |-> [message |-> Undefined, selectedCompanySlug |-> Undefined,
                              topK |-> Undefined],
     topK |-> 0, selectedCompany |-> NoCompany, embeddingCount |-> 0,
     queryEmbedding |-> <<>>, similarities |-> <<>>, topCompanies |-> <<>>,
     stage |-> "none", portfolioCompanies |-> <<>>, replies |-> <<>>,
     answer |-> <<>>, hallucinated |-> <<>>,
     calls |-> <<>>, oracle |-> <<>>, overlaps |-> {}, storeErrors |-> 0, thrown |-> "none",
     responses |-> <<>>]

Call(op, n, token, ctx, strict) ==
    [op |-> op, n |-> n, token |-> token, ctx |-> ctx, strict |-> strict]

\* st after the handler has issued an external call and awaits it at pc
Await(st, pc, call) == [st EXCEPT !.pc = pc, !.calls = Append(@, call)]

Message(st) == st.body.message.v

\* Variant: the catch block echoes what was thrown
Catch_EchoesCause(st, thrown) ==
    [st EXCEPT !.pc = "done", !.thrown = thrown,
               !.responses = Append(@, [status |-> 500,
                   body |-> [error |-> [message |-> thrown]]])]

\* catch (error): res.status(500).json({error: {message: 'Failed to process chat message'}})
Catch(st, thrown) ==
    [st EXCEPT !.pc = "done", !.thrown = thrown,
               !.responses = Append(@, [status |-> 500,
                   body |-> [error |-> [message |-> "Failed to process chat message"]]])]

\* res.status(400).json({error: {message: 'Invalid request body', details}})
Reject(st) ==
    [st EXCEPT !.pc = "done",
               !.responses = Append(@, [status |-> 400,
                   body |-> [error |-> [message |-> "Invalid request body",
                                        details |-> "validationResult.error.errors"]]])]

ContextEntry(i) ==
    [name |-> Company(i).name, slug |-> Company(i).slug,
     radical_primary_category |-> Company(i).radical_primary_category,
     description |-> Company(i).description]

SourceEntry(i) ==
    [name |-> Company(i).name, slug |-> Company(i).slug,
     radical_primary_category |-> Company(i).radical_primary_category]

HasSlug(list, slug) == \E k \in 1..Len(list) : list[k].slug = slug

\* Unshift the selected company's projection (entry) unless its slug is found in list
WithSelected(list, selectedCompany, entry) ==
    IF selectedCompany # NoCompany /\ ~HasSlug(list, entry.slug)
    THEN <<entry>> \o list
    ELSE list

\* Variant: the selected company is left out of the context
BuildContext_NoPin(topCompanies, selectedCompany) ==
    [k \in 1..Len(topCompanies) |-> ContextEntry(topCompanies[k].company)]

BuildContext(topCompanies, selectedCompany) ==
    WithSelected([k \in 1..Len(topCompanies) |-> ContextEntry(topCompanies[k].company)],
                 selectedCompany, ContextEntry(selectedCompany))

\* Variant: the selected company is unshifted without looking for its slug
BuildSources_AlwaysUnshift(topCompanies, selectedCompany) ==
    LET list == [k \in 1..Len(topCompanies) |-> SourceEntry(topCompanies[k].company)]
    IN  IF selectedCompany # NoCompany THEN <<SourceEntry(selectedCompany)>> \o list ELSE list

BuildSources(topCompanies, selectedCompany) ==
    WithSelected([k \in 1..Len(topCompanies) |-> SourceEntry(topCompanies[k].company)],
                 selectedCompany, SourceEntry(selectedCompany))

\* Reading company.name of an undefined company throws a TypeError
HasUndefinedCompany(topCompanies) ==
    \E k \in 1..Len(topCompanies) : topCompanies[k].company = NoCompany

\* Build the context and call the completion provider for the first time
Generate(st) ==
    IF HasUndefinedCompany(st.topCompanies) THEN Catch(st, "TypeError")
    ELSE LET ctx == BuildContext(st.topCompanies, st.selectedCompany)
         IN  Await([st EXCEPT !.portfolioCompanies = ctx], "complete",
                   Call("generateChatCompletion", 0, <<>>, ctx, <<>>))

\* Variant: the response carries the first answer
Respond_FirstAnswer(st) ==
    [st EXCEPT !.pc = "done",
               !.responses = Append(@, [status |-> 200,
                   body |-> [answer |-> st.replies[1],
                             sources |-> BuildSources(st.topCompanies, st.selectedCompany)]])]

\* Build the sources and send the 200 response
Respond(st) ==
    [st EXCEPT !.pc = "done",
               !.responses = Append(@, [status |-> 200,
                   body |-> [answer |-> st.answer,
                             sources |-> BuildSources(st.topCompanies, st.selectedCompany)]])]

WithDistance(ids, distance) ==
    [k \in 1..Len(ids) |-> [company |-> ids[k], distance |-> distance]]

\* The blind fallback query
AwaitAll(st) == Await(st, "all", Call("selectAll", FallbackLimit, <<>>, <<>>, <<>>))

\* Variant: the keyword query is issued whatever the vector stage found
AfterVector_AlwaysKeyword(st) ==
    LET searchTerms == LongerThan(split(toLowerCase(Message(st))), 3)
    IN  IF Len(searchTerms) > 0
        THEN Await(st, "keyword",
                   Call("selectKeyword", st.topK, searchTerms[1], <<>>, <<>>))
        ELSE IF Len(st.topCompanies) = 0 THEN AwaitAll(st) ELSE Generate(st)

\* if (topCompanies.length === 0) { keyword fallback ... } after the vector stage
AfterVector(st) ==
    IF Len(st.topCompanies) = 0
    THEN LET searchTerms == LongerThan(split(toLowerCase(Message(st))), 3)
         IN  IF Len(searchTerms) > 0
             THEN Await(st, "keyword",
                        Call("selectKeyword", st.topK, searchTerms[1], <<>>, <<>>))
             ELSE AwaitAll(st)
    ELSE Generate(st)

\* The count probe is issued
AwaitCount(st) == Await(st, "count", Call("countEmbeddings", 0, <<>>, <<>>, <<>>))

(***************************************************************************)
(* The handler, one action per stretch between two awaits.                 *)
(***************************************************************************)
\* Variant: topCompanies is one variable of the module, shared by all requests
Set_SharedCandidates(r, st) ==
    /\ req' = [q \in Reqs |->
                  IF q = r THEN st ELSE [req[q] EXCEPT !.topCompanies = st.topCompanies]]
    /\ UNCHANGED <<companies, embedded, env, elsewhere>>

\* The locals of request r's handler run become st; nothing else changes
Set(r, st) ==
    req' = [req EXCEPT ![r] = st] /\ UNCHANGED <<companies, embedded, env, elsewhere>>

\* A store call that fails returns {data: null, error}
StoreError(st) == [st EXCEPT !.storeErrors = @ + 1]

\* What an awaited call answered: ok is false when a store call returned an
\* error or a provider call threw; q and reply are the providers' results
Answer(ok, q, reply) == [ok |-> ok, q |-> q, reply |-> reply]

\* st, with the answer the handler was resumed with appended to its record
Heard(st, answer) == [st EXCEPT !.oracle = Append(@, answer)]

\* Validation, then the pinned-company lookup or the count probe is issued
OnStart(st0, body) ==
    LET st == [st0 EXCEPT !.body = body]
    IN  IF ~SafeParseSuccess(body) THEN Reject(st)
        ELSE LET ok == [st EXCEPT !.topK = ParsedTopK(body.topK)]
             IN  IF Truthy(body.selectedCompanySlug)
                 THEN Await(ok, "lookup",
                            Call("selectBySlug", 0, body.selectedCompanySlug.v, <<>>, <<>>))
                 ELSE AwaitCount(ok)

\* The requests whose handler is between its first await and its response
InFlight == {q \in Reqs : req[q].pc \notin {"idle", "done"}}

\* router.post('/'): a request arrives; the requests in flight at that
\* moment are recorded
Start(r) ==
    /\ req[r].pc = "idle"
    /\ \E body \in env.bodies :
         Set(r, [OnStart(req[r], body) EXCEPT !.overlaps = InFlight])

\* Variant: a slug that does not resolve ends the request
OnLookup_MissIsFatal(st, reachable) ==
    LET res == IF reachable THEN SelectBySlug(st.body.selectedCompanySlug.v)
               ELSE [error |-> TRUE, data |-> NoCompany]
    IN  IF ~res.error /\ res.data # NoCompany
        THEN AwaitCount([st EXCEPT !.selectedCompany = res.data])
        ELSE Catch(IF reachable THEN st ELSE StoreError(st), "selectBySlug")

\* if (!error && data) selectedCompany = data; then the count probe is issued
OnLookup(st, reachable) ==
    LET res == IF reachable THEN SelectBySlug(st.body.selectedCompanySlug.v)
               ELSE [error |-> TRUE, data |-> NoCompany]
        got == IF ~res.error /\ res.data # NoCompany
               THEN [st EXCEPT !.selectedCompany = res.data]
               ELSE st
    IN  AwaitCount(IF reachable THEN got ELSE StoreError(got))

\* The pinned-company lookup returns
LookupReturns(r) ==
    /\ req[r].pc = "lookup"
    /\ \E reachable \in env.reachable :
         Set(r, Heard(OnLookup(req[r], reachable), Answer(reachable, <<>>, <<>>)))

\* count: null when the probe failed
NullCount == 0 - 1

\* Variant: only a failed probe short-circuits, a count of zero does not
NoEmbeddings_NullOnly(embeddingCount) == embeddingCount = NullCount

\* if (!embeddingCount || embeddingCount === 0)
NoEmbeddings(embeddingCount) == embeddingCount = NullCount \/ embeddingCount = 0

\* The no-embeddings short-circuit, or the embedding call
OnCount(st0, reachable) ==
    LET embeddingCount == IF reachable THEN CountEmbeddings ELSE NullCount
        st == [(IF reachable THEN st0 ELSE StoreError(st0))
                  EXCEPT !.embeddingCount = embeddingCount]
    IN  IF NoEmbeddings(embeddingCount)
        THEN LET searchTerms == LongerThan(split(toLowerCase(Message(st))), 2)
             IN  IF Len(searchTerms) > 0
                 THEN Await(st, "keywordNoEmbeddings",
                          Call("selectKeyword", st.topK * 2, searchTerms[1], <<>>, <<>>))
                 ELSE Generate(st)
        ELSE Await(st, "embed", Call("generateEmbedding", 0, <<>>, <<>>, <<>>))

\* The count probe returns
CountReturns(r) ==
    /\ req[r].pc = "count"
    /\ \E reachable \in env.reachable :
         Set(r, Heard(OnCount(req[r], reachable), Answer(reachable, <<>>, <<>>)))

\* keywordResults.slice(0, topK) at distance 0.9, then the context
OnKeywordNoEmbeddings(st, reachable) ==
    LET call == st.calls[Len(st.calls)]
        keywordResults == IF reachable THEN KeywordRows(call.token, call.n) ELSE <<>>
    IN  IF reachable /\ Len(keywordResults) > 0
        THEN Generate([st EXCEPT
                 !.topCompanies = WithDistance(slice(keywordResults, st.topK),
                                               KeywordDistanceNoEmbeddings),
                 !.stage = "keywordNoEmbeddings"])
        ELSE Generate(IF reachable THEN st ELSE StoreError(st))

\* The keyword query of the no-embeddings branch returns
KeywordNoEmbeddingsReturns(r) ==
    /\ req[r].pc = "keywordNoEmbeddings"
    /\ \E reachable \in env.reachable :
         Set(r, Heard(OnKeywordNoEmbeddings(req[r], reachable),
                      Answer(reachable, <<>>, <<>>)))

\* queryEmbedding is set and the RPC is issued
OnEmbedding(st, q) ==
    Await([st EXCEPT !.queryEmbedding = q], "rpc", Call("rpc", st.topK, <<>>, <<>>, <<>>))

\* generateEmbedding returns a vector
EmbedReturns(r) ==
    /\ req[r].pc = "embed"
    /\ \E q \in env.vectors :
         Set(r, Heard(OnEmbedding(req[r], q), Answer(TRUE, q, <<>>)))

\* Variant: a failed embedding call degrades to the keyword stage
EmbedFails_Degrades(r) ==
    /\ req[r].pc = "embed"
    /\ Set(r, AfterVector([req[r] EXCEPT !.thrown = "generateEmbedding"]))

\* generateEmbedding throws
EmbedFails(r) ==
    /\ req[r].pc = "embed"
    /\ Set(r, Heard(Catch(req[r], "generateEmbedding"), Answer(FALSE, <<>>, <<>>)))

\* topCompanies = similarCompanies.map(...) when the RPC returned rows
OnRpc(st) ==
    LET similarCompanies ==
            search_similar_companies(st.queryEmbedding, match_threshold, st.topK)
    IN  IF Len(similarCompanies) > 0
        THEN AfterVector([st EXCEPT !.topCompanies = similarCompanies, !.stage = "rpc"])
        ELSE AfterVector(st)

\* The RPC returns rows
RpcReturns(r) ==
    /\ req[r].pc = "rpc"
    /\ Set(r, Heard(OnRpc(req[r]), Answer(TRUE, <<>>, <<>>)))

\* if (searchError): fetch the embeddings for the client-side search
OnRpcError(st) ==
    Await(StoreError(st), "embeddings", Call("selectEmbeddings", 0, <<>>, <<>>, <<>>))

\* Variant: after a failed RPC the handler drops the stored embeddings that
\* do not pass the threshold for its query
RpcFails_PrunesEmbeddings(r) ==
    /\ req[r].pc = "rpc"
    /\ req' = [req EXCEPT ![r] = Heard(OnRpcError(req[r]), Answer(FALSE, <<>>, <<>>))]
    /\ embedded' = {i \in embedded :
                       NumLess(cosineDistance(req[r].queryEmbedding, StoredEmbedding(i)),
                               1000 - match_threshold)}
    /\ UNCHANGED <<companies, env, elsewhere>>

\* The RPC returns an error
RpcFails(r) ==
    /\ req[r].pc = "rpc"
    /\ Set(r, Heard(OnRpcError(req[r]), Answer(FALSE, <<>>, <<>>)))

\* Variant: a row is dropped only when its distance is known to reach the
\* threshold, so a distance that is not a number passes
Scored_KeepsNaN(emb, queryEmbedding) ==
    IF Len(emb.embedding) # Len(queryEmbedding) THEN <<>>
    ELSE LET distance == cosineDistance(queryEmbedding, emb.embedding)
         IN  IF distance = NaN \/ distance < 1000 - match_threshold
             THEN <<[company_id |-> emb.company_id, distance |-> distance]>>
             ELSE <<>>

\* One stored embedding scored against the query; <<>> when it is left out
Scored(emb, queryEmbedding) ==
    IF Len(emb.embedding) # Len(queryEmbedding) THEN <<>>
    ELSE LET distance == cosineDistance(queryEmbedding, emb.embedding)
         IN  IF NumLess(distance, 1000 - match_threshold)
             THEN <<[company_id |-> emb.company_id, distance |-> distance]>>
             ELSE <<>>

RECURSIVE ScoreAll(_, _)
ScoreAll(embeddings, queryEmbedding) ==
    IF embeddings = <<>> THEN <<>>
    ELSE Scored(Head(embeddings), queryEmbedding) \o ScoreAll(Tail(embeddings), queryEmbedding)

\* embeddings.map(score).filter(non-null).sort(by distance).slice(0, topK)
Similarities(embeddings, queryEmbedding, topK) ==
    slice(SortByDistance(ScoreAll(embeddings, queryEmbedding)), topK)

\* The similarities are computed and the company rows are asked for
OnEmbeddings(st, reachable) ==
    LET embeddings == IF reachable THEN EmbeddingRows ELSE <<>>
    IN  IF reachable /\ Len(embeddings) > 0
        THEN LET similarities == Similarities(embeddings, st.queryEmbedding, st.topK)
             IN  Await([st EXCEPT !.similarities = similarities], "companiesIn",
                       Call("selectCompaniesIn", Len(similarities), <<>>, <<>>, <<>>))
        ELSE AfterVector(IF reachable THEN st ELSE StoreError(st))

\* The embeddings fetch returns
EmbeddingsReturn(r) ==
    /\ req[r].pc = "embeddings"
    /\ \E reachable \in env.reachable :
         Set(r, Heard(OnEmbeddings(req[r], reachable), Answer(reachable, <<>>, <<>>)))

\* companies.find((c) => c.id === sim.company_id)
Find(rows, id) == IF \E k \in 1..Len(rows) : rows[k] = id THEN id ELSE NoCompany

\* topCompanies = similarities.map((sim) => ({company: companies.find(...), distance}))
OnCompaniesIn(st, reachable) ==
    LET ids == {st.similarities[k].company_id : k \in 1..Len(st.similarities)}
        rows == IF reachable THEN CompaniesIn(ids) ELSE <<>>
    IN  IF reachable
        THEN AfterVector([st EXCEPT
                 !.topCompanies = [k \in 1..Len(st.similarities) |->
                      [company |-> Find(rows, st.similarities[k].company_id),
                       distance |-> st.similarities[k].distance]],
                 !.stage = IF Len(st.similarities) > 0 THEN "client" ELSE @])
        ELSE AfterVector(StoreError(st))

\* The company lookup of the client-side search returns
CompaniesInReturn(r) ==
    /\ req[r].pc = "companiesIn"
    /\ \E reachable \in env.reachable :
         Set(r, Heard(OnCompaniesIn(req[r], reachable), Answer(reachable, <<>>, <<>>)))

\* Keyword matches at distance 0.8, or the blind fallback query
OnKeyword(st, reachable) ==
    LET call == st.calls[Len(st.calls)]
        keywordResults == IF reachable THEN KeywordRows(call.token, call.n) ELSE <<>>
    IN  IF reachable /\ Len(keywordResults) > 0
        THEN Generate([st EXCEPT
                 !.topCompanies = WithDistance(keywordResults, KeywordDistance),
                 !.stage = "keyword"])
        ELSE AwaitAll(IF reachable THEN st ELSE StoreError(st))

\* The keyword query after an empty vector stage returns
KeywordReturns(r) ==
    /\ req[r].pc = "keyword"
    /\ \E reachable \in env.reachable :
         Set(r, Heard(OnKeyword(req[r], reachable), Answer(reachable, <<>>, <<>>)))

\* allCompaniesData at distance 1.0, then the context
OnAll(st, reachable) ==
    LET allCompaniesData == IF reachable THEN AllRows(FallbackLimit) ELSE <<>>
    IN  IF reachable /\ Len(allCompaniesData) > 0
        THEN Generate([st EXCEPT
                 !.topCompanies = WithDistance(allCompaniesData, FallbackDistance),
                 !.stage = "all"])
        ELSE Generate(IF reachable THEN st ELSE StoreError(st))

\* The blind fallback query returns
AllReturns(r) ==
    /\ req[r].pc = "all"
    /\ \E reachable \in env.reachable :
         Set(r, Heard(OnAll(req[r], reachable), Answer(reachable, <<>>, <<>>)))

\* Does the first answer call for a regeneration?
NeedsRegeneration(hallucinated) == Len(hallucinated) > 0

\* Hallucination detection: regenerate once, or respond
OnCompletion(st0, reply) ==
    LET hallucinated == Hallucinated(reply)
        st == [st0 EXCEPT !.answer = reply, !.replies = Append(@, reply),
                          !.hallucinated = hallucinated]
    IN  IF NeedsRegeneration(hallucinated)
        THEN Await(st, "regenerate",
                   Call("generateChatCompletion", 0, <<>>, st.portfolioCompanies,
                        hallucinated))
        ELSE Respond(st)

\* The first completion returns
CompleteReturns(r) ==
    /\ req[r].pc = "complete"
    /\ \E reply \in env.replies :
         Set(r, Heard(OnCompletion(req[r], reply), Answer(TRUE, <<>>, reply)))

\* The regenerated answer is sent whatever it contains
OnRegeneration(st, reply) ==
    Respond([st EXCEPT !.answer = reply, !.replies = Append(@, reply)])

\* The regeneration returns
RegenerateReturns(r) ==
    /\ req[r].pc = "regenerate"
    /\ \E reply \in env.replies :
         Set(r, Heard(OnRegeneration(req[r], reply), Answer(TRUE, <<>>, reply)))

\* generateChatCompletion throws, at the first call or at the regeneration
CompletionFails(r) ==
    /\ req[r].pc \in {"complete", "regenerate"}
    /\ Set(r, Heard(Catch(req[r], "generateChatCompletion"), Answer(FALSE, <<>>, <<>>)))

Step(r) ==
    \/ Start(r)
    \/ LookupReturns(r)
    \/ CountReturns(r)
    \/ KeywordNoEmbeddingsReturns(r)
    \/ EmbedReturns(r)
    \/ EmbedFails(r)
    \/ RpcReturns(r)
    \/ RpcFails(r)
    \/ EmbeddingsReturn(r)
    \/ CompaniesInReturn(r)
    \/ KeywordReturns(r)
    \/ AllReturns(r)
    \/ CompleteReturns(r)
    \/ RegenerateReturns(r)
    \/ CompletionFails(r)

\* Every body, every store failure and every provider result of the model
FullEnv ==
    [bodies |-> Bodies, reachable |-> BOOLEAN, vectors |-> QueryVectors, replies |-> Replies]

Init ==
    /\ companies \in Tables
    /\ embedded \in EmbeddedSets(companies)
    /\ env = FullEnv
    /\ req = [r \in Reqs |-> IdleReq]
    /\ ElsewhereOff

\* One request at a time
Next == Step(1)

Spec == Init /\ [][Next]_vars

(***************************************************************************)
(* What the claims read off a request.                                     *)
(***************************************************************************)
CallsOf(r, ops) == SelectSeq(req[r].calls, LAMBDA c : c.op \in ops)

CompletionCalls(r) == CallsOf(r, {"generateChatCompletion"})

Responded(r, status) ==
    /\ req[r].pc = "done"
    /\ Len(req[r].responses) = 1
    /\ req[r].responses[1].status = status

Sources(r) == req[r].responses[1].body.sources

\* The positions of slug in a list of projections
Positions(list, slug) == {k \in 1..Len(list) : list[k].slug = slug}

Pinned(r) == req[r].selectedCompany # NoCompany

PinnedSlug(r) == Company(req[r].selectedCompany).slug

RetrievedSlugs(r) ==
    [k \in 1..Len(req[r].topCompanies) |-> [slug |-> Company(req[r].topCompanies[k].company).slug]]

(***************************************************************************)
(* C1: in every request that ends with a 200 response, each slug of the    *)
(* response's sources is the slug of an entry of the context list that was *)
(* passed to the completion provider, at the first completion call and at  *)
(* the regeneration call alike.                                            *)
(***************************************************************************)
C1_SourcesWereInContext ==
    \A r \in Reqs :
        Responded(r, 200) =>
            \A k \in 1..Len(Sources(r)) :
                \A c \in 1..Len(CompletionCalls(r)) :
                    HasSlug(CompletionCalls(r)[c].ctx, Sources(r)[k].slug)

\* A 200 response after a regeneration, citing the pinned company and a retrieved one
C1_Witness ==
    \E r \in Reqs :
        /\ Responded(r, 200)
        /\ Len(CompletionCalls(r)) = 2
        /\ Pinned(r)
        /\ Len(Sources(r)) >= 2
        /\ ~HasSlug(RetrievedSlugs(r), PinnedSlug(r))

(***************************************************************************)
(* C2 as stated: whenever the selected slug resolved, the pinned company   *)
(* is the first entry of the context list and of the sources list and its  *)
(* slug occurs exactly once in each, wherever retrieval placed it.         *)
(***************************************************************************)
C2_PinnedFirstOnce(list, slug) ==
    /\ Len(list) >= 1
    /\ list[1].slug = slug
    /\ Cardinality(Positions(list, slug)) = 1

C2_PinnedPlace(r, list) ==
    LET retrieved == Positions(RetrievedSlugs(r), PinnedSlug(r))
    IN  /\ Cardinality(Positions(list, PinnedSlug(r))) = 1
        /\ IF retrieved = {}
           THEN list[1].slug = PinnedSlug(r) /\ Len(list) = Len(req[r].topCompanies) + 1
           ELSE Positions(list, PinnedSlug(r)) = retrieved
                /\ Len(list) = Len(req[r].topCompanies)

KeywordStageEnded(r) ==
    /\ Len(CallsOf(r, {"selectKeyword"})) > 0
    /\ req[r].pc \notin {"keyword", "keywordNoEmbeddings"}

\* Retrieval is over: the handler is at or past the first completion call
RetrievalOver(r) == req[r].pc \in {"complete", "regenerate", "done"}

(***************************************************************************)
(* C3 as stated: whenever the keyword stage ended with zero matches, the   *)
(* companies table holds a row and no store call failed, the blind         *)
(* fallback has run and retrieval ends with 1..30 companies, so the        *)
(* context passed to the completion provider is not empty, after an empty  *)
(* vector search and after the no-embeddings short-circuit alike.          *)
(***************************************************************************)
C3_BlindFallbackAfterEmptyKeyword ==
    \A r \in Reqs :
        ( /\ KeywordStageEnded(r)
          /\ req[r].stage \notin {"keyword", "keywordNoEmbeddings"}
          /\ RetrievalOver(r)
          /\ Len(companies) >= 1
          /\ req[r].storeErrors = 0 )
        => /\ Len(CallsOf(r, {"selectAll"})) = 1
           /\ Len(req[r].topCompanies) >= 1
           /\ Len(req[r].topCompanies) <= FallbackLimit
           /\ \A c \in 1..Len(CompletionCalls(r)) : Len(CompletionCalls(r)[c].ctx) >= 1

(***************************************************************************)
(* C4: when the count probe reports zero rows, the request never calls the *)
(* embedding provider, the similarity RPC or the embeddings fetch; the     *)
(* only retrieval query it issues is the keyword query.                    *)
(***************************************************************************)
CountReportedZero(r) ==
    /\ Len(CallsOf(r, {"countEmbeddings"})) = 1
    /\ req[r].pc # "count"
    /\ req[r].embeddingCount = 0

C4_NoVectorWorkOnEmptyStore ==
    \A r \in Reqs :
        CountReportedZero(r) =>
            /\ CallsOf(r, {"generateEmbedding", "rpc", "selectEmbeddings",
                           "selectCompaniesIn", "selectAll"}) = <<>>
            /\ Len(CallsOf(r, {"selectKeyword"})) <= 1

\* The probe reported zero with companies in the table, and keyword search answered
C4_Witness ==
    \E r \in Reqs :
        /\ CountReportedZero(r)
        /\ Len(companies) >= 2
        /\ req[r].stage = "keywordNoEmbeddings"
        /\ Responded(r, 200)

\* Case-insensitive substring scan of a text for a deny-list term
ContainsDenyTerm(text) ==
    \E k \in 1..Len(forbiddenExamples) : includes(toLowerCase(text), forbiddenExamples[k])

(***************************************************************************)
(* C5: a request calls the completion provider at most twice: once when    *)
(* the first answer contains no deny-list term, twice when it contains     *)
(* one; a regenerated answer that still contains one triggers no third     *)
(* call.                                                                   *)
(***************************************************************************)
C5_AtMostOneRegeneration ==
    \A r \in Reqs :
        /\ Len(CompletionCalls(r)) <= 2
        /\ Len(req[r].replies) >= 1 =>
               Len(CompletionCalls(r)) = IF ContainsDenyTerm(req[r].replies[1]) THEN 2 ELSE 1

\* The regenerated answer still names a deny-list term, and the request is over
C5_Witness ==
    \E r \in Reqs :
        /\ Responded(r, 200)
        /\ Len(req[r].replies) = 2
        /\ ContainsDenyTerm(req[r].replies[2])
        /\ req[r].replies[1] # toLowerCase(req[r].replies[1])

(***************************************************************************)
(* C6: the answer of a 200 response is the text the last completion call   *)
(* returned: the first answer when it is clean, otherwise the regenerated  *)
(* answer, clean or not; the answer that triggered the regeneration is not *)
(* the one sent.                                                           *)
(***************************************************************************)
C6_AnswerIsLastReply ==
    \A r \in Reqs :
        Responded(r, 200) =>
            /\ Len(req[r].replies) = IF ContainsDenyTerm(req[r].replies[1]) THEN 2 ELSE 1
            /\ req[r].responses[1].body.answer = req[r].replies[Len(req[r].replies)]

\* A 200 response after a regeneration whose answer differs from the first and is clean
C6_Witness ==
    \E r \in Reqs :
        /\ Responded(r, 200)
        /\ Len(req[r].replies) = 2
        /\ req[r].replies[1] # req[r].replies[2]
        /\ ~ContainsDenyTerm(req[r].replies[2])

Received(r) == req[r].pc # "idle"

InvalidRequestBody ==
    [error |-> [message |-> "Invalid request body", details |-> "validationResult.error.errors"]]

FailedToProcess == [error |-> [message |-> "Failed to process chat message"]]

\* The request was answered 400 and nothing else happened
RejectedUntouched(r) ==
    /\ req[r].pc = "done"
    /\ req[r].responses = <<[status |-> 400, body |-> InvalidRequestBody]>>
    /\ req[r].calls = <<>>

(***************************************************************************)
(* C7: a request whose message is missing, not a string or the empty       *)
(* string is answered 400 'Invalid request body', and no call to the       *)
(* store, the embedding provider or the completion provider is made.       *)
(***************************************************************************)
C7_BadMessageRejectedBeforeAnyCall ==
    \A r \in Reqs :
        ( /\ Received(r)
          /\ \/ req[r].body.message.t # "string"
             \/ req[r].body.message.v = <<>> )
        => RejectedUntouched(r)

\* The empty message was rejected although the rest of the body was valid
C7_Witness ==
    \E r \in Reqs :
        /\ Received(r)
        /\ req[r].body.message = Str(<<>>)
        /\ req[r].body.topK = Undefined
        /\ req[r].body.selectedCompanySlug = Str(SlugOf(1))
        /\ RejectedUntouched(r)

\* A body that is valid but for a topK outside 1..10
TopKOutOfRange(r) ==
    /\ Received(r)
    /\ req[r].body.message.t = "string"
    /\ req[r].body.message.v # <<>>
    /\ req[r].body.selectedCompanySlug.t \in {"string", "null", "undefined"}
    /\ req[r].body.topK.t = "number"
    /\ (req[r].body.topK.v < 1 \/ req[r].body.topK.v > 10)

\* The row counts the store was asked for
RowLimits(r) == CallsOf(r, {"selectKeyword", "selectAll", "rpc"})

PositiveRowLimits(r) == \A k \in 1..Len(RowLimits(r)) : RowLimits(r)[k].n >= 1

(***************************************************************************)
(* C8 as stated: a request with a valid message and a topK outside 1..10   *)
(* is not rejected: topK is clamped into 1..10 (0 and negatives to the     *)
(* default 5), the request goes on to retrieval, and the store is never    *)
(* asked for a non-positive number of rows.                                *)
(***************************************************************************)
C8_Original ==
    \A r \in Reqs :
        TopKOutOfRange(r) =>
            /\ \A k \in 1..Len(req[r].responses) : req[r].responses[k].status # 400
            /\ req[r].topK = IF req[r].body.topK.v < 1 THEN 5 ELSE 10
            /\ Len(CallsOf(r, {"countEmbeddings"})) = 1
            /\ PositiveRowLimits(r)

(***************************************************************************)
(* C8 as amended: a request with a valid message and a topK outside 1..10  *)
(* is rejected with the 400 'Invalid request body' response and never      *)
(* reaches retrieval; topK is not clamped.  In every request the store is  *)
(* never asked for a non-positive number of rows.                          *)
(***************************************************************************)
C8_OutOfRangeTopKRejected ==
    \A r \in Reqs :
        /\ TopKOutOfRange(r) => RejectedUntouched(r)
        /\ PositiveRowLimits(r)

\* topK 0 with a valid message was rejected
C8_Witness ==
    \E r \in Reqs :
        /\ TopKOutOfRange(r)
        /\ req[r].body.topK.v = 0
        /\ req[r].body.selectedCompanySlug = Undefined
        /\ RejectedUntouched(r)

(***************************************************************************)
(* C9: a request that has ended has sent exactly one response, and one     *)
(* that has not ended has sent none; the response is the 400 validation    *)
(* error, a 200 carrying an answer and sources, or the 500 with the fixed  *)
(* body.  When a completion call fails, at the first call or at the        *)
(* regeneration, the response is that 500, with no answer and no sources,  *)
(* whatever was thrown.                                                    *)
(***************************************************************************)
C9_OneCompleteResponseOrGenericError ==
    \A r \in Reqs :
        /\ Len(req[r].responses) = IF req[r].pc = "done" THEN 1 ELSE 0
        /\ \A k \in 1..Len(req[r].responses) :
               LET res == req[r].responses[k]
               IN  \/ res.status = 400 /\ res.body = InvalidRequestBody
                   \/ res.status = 200 /\ DOMAIN res.body = {"answer", "sources"}
                                       /\ res.body.answer = req[r].answer
                   \/ res.status = 500 /\ res.body = FailedToProcess
        /\ req[r].thrown # "none" =>
               req[r].responses = <<[status |-> 500, body |-> FailedToProcess]>>

\* The regeneration call failed after a first answer had been received
C9_Witness ==
    \E r \in Reqs :
        /\ req[r].thrown = "generateChatCompletion"
        /\ Len(req[r].replies) = 1
        /\ Len(req[r].topCompanies) >= 1
        /\ Responded(r, 500)

(***************************************************************************)
(* C10: when the embedding provider call fails, the request ends with the  *)
(* 500 response, and neither keyword search nor the blind fallback nor the *)
(* completion provider is called after the failure.                        *)
(***************************************************************************)
C10_EmbeddingFailureIsFatal ==
    \A r \in Reqs :
        req[r].thrown = "generateEmbedding" =>
            /\ req[r].pc = "done"
            /\ req[r].responses = <<[status |-> 500, body |-> FailedToProcess]>>
            /\ req[r].calls[Len(req[r].calls)].op = "generateEmbedding"
            /\ CallsOf(r, {"selectKeyword", "selectAll", "generateChatCompletion"}) = <<>>

\* The embedding call failed for a message that has a keyword and a store that has rows
C10_Witness ==
    \E r \in Reqs :
        /\ req[r].thrown = "generateEmbedding"
        /\ req[r].body.message = Str(<<"A","C","M","E"," ","a","i">>)
        /\ Len(companies) >= 1
        /\ Responded(r, 500)

(***************************************************************************)
(* A request run on its own: the handler resumed with a given record of    *)
(* answers, against the store as it is.                                    *)
(***************************************************************************)
\* The handler's next stretch, resumed with one answer
Resume(st, a) ==
    CASE st.pc = "lookup" -> OnLookup(st, a.ok)
      [] st.pc = "count" -> OnCount(st, a.ok)
      [] st.pc = "keywordNoEmbeddings" -> OnKeywordNoEmbeddings(st, a.ok)
      [] st.pc = "embed" ->
            IF a.ok THEN OnEmbedding(st, a.q) ELSE Catch(st, "generateEmbedding")
      [] st.pc = "rpc" -> IF a.ok THEN OnRpc(st) ELSE OnRpcError(st)
      [] st.pc = "embeddings" -> OnEmbeddings(st, a.ok)
      [] st.pc = "companiesIn" -> OnCompaniesIn(st, a.ok)
      [] st.pc = "keyword" -> OnKeyword(st, a.ok)
      [] st.pc = "all" -> OnAll(st, a.ok)
      [] st.pc = "complete" ->
            IF a.ok THEN OnCompletion(st, a.reply)
            ELSE Catch(st, "generateChatCompletion")
      [] st.pc = "regenerate" ->
            IF a.ok THEN OnRegeneration(st, a.reply)
            ELSE Catch(st, "generateChatCompletion")
      [] OTHER -> st

RECURSIVE ResumeAll(_, _)
ResumeAll(st, answers) ==
    IF answers = <<>> \/ st.pc = "done" THEN st
    ELSE CHOOSE end \in {ResumeAll(next, Tail(answers)) :
                             next \in {Resume(st, Head(answers))}} : TRUE

\* The handler run alone on a body, its awaited calls answered in turn
RunAlone(body, answers) ==
    CHOOSE end \in {ResumeAll(st, answers) : st \in {OnStart(IdleReq, body)}} : TRUE

\* What a run did after its first n calls: position, calls, candidates,
\* context, replies and responses
Path(st, n) ==
    [pc |-> st.pc, calls |-> SubSeq(st.calls, n + 1, Len(st.calls)),
     stage |-> st.stage, topCompanies |-> st.topCompanies,
     portfolioCompanies |-> st.portfolioCompanies, replies |-> st.replies,
     thrown |-> st.thrown, responses |-> st.responses]

\* The request has ended, its slug lookup having returned without a company
SlugUnresolved(r) ==
    /\ req[r].pc = "done"
    /\ SafeParseSuccess(req[r].body)
    /\ Truthy(req[r].body.selectedCompanySlug)
    /\ req[r].selectedCompany = NoCompany

\* The same body without a slug
WithoutSlug(body) == [body EXCEPT !.selectedCompanySlug = Undefined]

\* Requests that name a company: every kind of message retrieval tells
\* apart, a slug the store has and one it has not
PinnedEnv ==
    [bodies |-> [message : {Str(<<"a","i">>), Str(<<"A","C","M","E"," ","a","i">>),
                            Str(<<" ","z","z","z","z">>)},
                 selectedCompanySlug : {Str(SlugOf(1)), Str(NoSuchSlug)},
                 topK : {Undefined}],
     reachable |-> BOOLEAN,
     vectors |-> { <<1, 0>>, <<0, 0 - 1>> },
     replies |-> { <<"A","c","m","e">>, <<"x","A","m","D">> }]

InitPinned ==
    /\ companies \in Tables
    /\ embedded \in EmbeddedSets(companies)
    /\ env = PinnedEnv
    /\ req = [r \in Reqs |-> IdleReq]
    /\ ElsewhereOff

NextPinned == Step(1)

SpecPinned == InitPinned /\ [][NextPinned]_vars

\* C11: a request whose slug lookup returned an error or no row has gone on
\* exactly as the same message without a slug does on the same answers: same
\* calls after the lookup, same candidates, same context (no pinned entry),
\* same replies, same response
C11_UnresolvedSlugIsNoSlug ==
    \A r \in Reqs :
        SlugUnresolved(r) =>
            Path(req[r], 1) =
                Path(RunAlone(WithoutSlug(req[r].body), Tail(req[r].oracle)), 0)

\* A request whose slug did not resolve has answered 200 with sources
C11_Witness ==
    \E r \in Reqs :
        /\ SlugUnresolved(r)
        /\ Responded(r, 200)
        /\ Len(Sources(r)) > 0

(***************************************************************************)
(* The two vector searches, on the same query and the same store.          *)
(***************************************************************************)
\* The client-side search: scored embeddings joined with their companies
ClientSideSearch(q, topK) ==
    LET similarities == Similarities(EmbeddingRows, q, topK)
        rows == CompaniesIn({similarities[k].company_id : k \in 1..Len(similarities)})
    IN  [k \in 1..Len(similarities) |->
           [company |-> Find(rows, similarities[k].company_id),
            distance |-> similarities[k].distance]]

\* The companies of a candidate list, in order
CompaniesOf(list) == [k \in 1..Len(list) |-> list[k].company]

\* The request has its query embedding
HasQuery(r) == req[r].queryEmbedding # <<>>

\* C12: for the query embedding and topK of a request, the RPC and the
\* client-side search give the same candidates, in the same order, with the
\* same distance values
C12_RpcEqualsClientSide ==
    \A r \in Reqs :
        HasQuery(r) =>
            search_similar_companies(req[r].queryEmbedding, match_threshold, req[r].topK)
                = ClientSideSearch(req[r].queryEmbedding, req[r].topK)

\* The two searches give the same companies in the same order
C12_SameCompaniesSameOrder ==
    \A r \in Reqs :
        HasQuery(r) =>
            CompaniesOf(search_similar_companies(req[r].queryEmbedding, match_threshold,
                                                 req[r].topK))
                = CompaniesOf(ClientSideSearch(req[r].queryEmbedding, req[r].topK))

\* The distance values of a candidate list never decrease along it
NonDecreasing(list) ==
    \A k \in 1..(Len(list) - 1) : list[k].distance <= list[k + 1].distance

\* C13: the candidate list of every retrieval stage (RPC, client-side,
\* keyword, blind fallback) has non-decreasing distance values
C13_DistancesNonDecreasing ==
    \A r \in Reqs : req[r].stage # "none" => NonDecreasing(req[r].topCompanies)

\* The same, for every stage but the RPC
C13_NonDecreasingOffRpc ==
    \A r \in Reqs :
        req[r].stage \notin {"none", "rpc"} => NonDecreasing(req[r].topCompanies)

(***************************************************************************)
(* Several requests in flight at once: any handler whose awaited call has  *)
(* returned may run its next stretch.                                      *)
(***************************************************************************)
\* Two bodies (a pinned company and a default topK; no slug and topK 1),
\* a store that answers, two query vectors and two replies
ConcurrentEnv ==
    [bodies |-> { [message |-> Str(<<"A","C","M","E"," ","a","i">>),
                   selectedCompanySlug |-> Str(SlugOf(1)), topK |-> Undefined],
                  [message |-> Str(<<" ","z","z","z","z">>),
                   selectedCompanySlug |-> Undefined, topK |-> Num(1)] },
     reachable |-> {TRUE},
     vectors |-> { <<1, 0>>, <<0, 0 - 1>> },
     replies |-> { <<"A","c","m","e">>, <<"x","A","m","D">> }]

InitConcurrent ==
    /\ companies = Rotation(NCompanies, 0)
    /\ embedded \in {{}, Range(companies)}
    /\ env = ConcurrentEnv
    /\ req = [r \in Reqs |-> IdleReq]
    /\ ElsewhereOff

NextConcurrent == \E r \in Reqs : Step(r)

SpecConcurrent == InitConcurrent /\ [][NextConcurrent]_vars

\* C14: whatever the interleaving, a finished request has made the calls,
\* kept the pinned company, candidates, context and answer, and sent the
\* response (status, answer, sources) that the same body gives when run
\* alone against the same store and the same provider answers
C14_AsIfAlone ==
    \A r \in Reqs :
        req[r].pc = "done" =>
            LET alone == RunAlone(req[r].body, req[r].oracle)
            IN  /\ Path(req[r], 0) = Path(alone, 0)
                /\ req[r].selectedCompany = alone.selectedCompany
                /\ req[r].answer = alone.answer

\* Two requests with different bodies, one started while the other was in
\* flight, have both answered 200
C14_Witness ==
    \E r, q \in Reqs :
        /\ q \in req[r].overlaps
        /\ req[q].body # req[r].body
        /\ Responded(r, 200)
        /\ Responded(q, 200)
        /\ Len(Sources(r)) > 0

\* The store operations a chat request may issue: selects, and the RPC,
\* whose body is one SELECT
ReadOps == {"selectBySlug", "countEmbeddings", "selectKeyword", "rpc",
            "selectEmbeddings", "selectCompaniesIn", "selectAll"}

\* The calls to the embedding and chat providers
ProviderOps == {"generateEmbedding", "generateChatCompletion"}

\* C15: no step of a chat request changes the companies table or the
\* company_embeddings table: every step leaves both as they were, and every
\* call it issues is a read of the store or a provider call
C15_StoreUnchanged ==
    [][/\ companies' = companies
       /\ embedded' = embedded
       /\ \A r \in Reqs : \A k \in 1..Len(req'[r].calls) :
             req'[r].calls[k].op \in ReadOps \cup ProviderOps]_vars

\* A request has answered 200 after reading both tables (count probe, failed
\* RPC, embeddings fetch, company rows)
C15_Witness ==
    \E r \in Reqs :
        /\ Responded(r, 200)
        /\ req[r].stage = "client"
        /\ CallsOf(r, ReadOps) # <<>>
        /\ embedded # {}

(***************************************************************************)
(* Decoding a fetched embedding.  Numbers are held in tenths (3 is 0.3),   *)
(* and their texts are computed, so that parsing is not the identity.      *)
(***************************************************************************)
\* The largest dimension of the vectors that are decoded
MaxDim == 3

Digits == <<"0","1","2","3","4","5","6","7","8","9">>

IsDigit(c) == \E i \in 1..Len(Digits) : Digits[i] = c

DigitValue(c) == (CHOOSE i \in 1..Len(Digits) : Digits[i] = c) - 1

RECURSIVE NatText(_)
NatText(n) ==
    IF n < 10 THEN <<Digits[n + 1]>>
    ELSE NatText(n \div 10) \o <<Digits[(n % 10) + 1]>>

\* String(x) of a number with at most one decimal: "0.3", "-0.5", "1"
NumberText(n) ==
    LET a == IF n < 0 THEN 0 - n ELSE n
        text == NatText(a \div 10) \o
                (IF a % 10 = 0 THEN <<>> ELSE <<".", Digits[(a % 10) + 1]>>)
    IN  IF n < 0 THEN <<"-">> \o text ELSE text

\* Array.prototype.join
RECURSIVE join(_, _)
join(texts, sep) ==
    IF texts = <<>> THEN <<>>
    ELSE IF Len(texts) = 1 THEN texts[1]
    ELSE texts[1] \o sep \o join(Tail(texts), sep)

\* The forms in which the store hands back a vector column
Encodings == {"array", "json", "braces", "commas", "spaced"}

\* The embedding field of a fetched row, for a stored vector
Encode(encoding, vector) ==
    LET texts == [k \in 1..Len(vector) |-> NumberText(vector[k])]
    IN  CASE encoding = "array" -> [t |-> "array", v |-> vector]
          [] encoding = "json" -> Str(<<"[">> \o join(texts, <<",">>) \o <<"]">>)
          [] encoding = "braces" -> Str(<<"{">> \o join(texts, <<",">>) \o <<"}">>)
          [] encoding = "commas" -> Str(join(texts, <<",">>))
          [] encoding = "spaced" -> Str(join(texts, <<",", " ">>))

\* String.prototype.trim
trim(s) ==
    LET kept == {k \in 1..Len(s) : ~IsSpace(s[k])}
    IN  IF kept = {} THEN <<>>
        ELSE SubSeq(s, CHOOSE i \in kept : \A j \in kept : i <= j,
                       CHOOSE i \in kept : \A j \in kept : i >= j)

\* s.split(','): the pieces between the separators
RECURSIVE SplitOnFrom(_, _, _, _)
SplitOnFrom(s, i, cur, sep) ==
    IF i > Len(s) THEN <<cur>>
    ELSE IF s[i] = sep THEN <<cur>> \o SplitOnFrom(s, i + 1, <<>>, sep)
    ELSE SplitOnFrom(s, i + 1, Append(cur, s[i]), sep)

SplitOn(s, sep) == SplitOnFrom(s, 1, <<>>, sep)

\* The number of digits of s from position i on
RECURSIVE DigitsRun(_, _)
DigitsRun(s, i) ==
    IF i <= Len(s) /\ IsDigit(s[i]) THEN 1 + DigitsRun(s, i + 1) ELSE 0

\* The value of the n digits of s from position i on
RECURSIVE DigitsValue(_, _, _)
DigitsValue(s, i, n) ==
    IF n = 0 THEN 0 ELSE 10 * DigitsValue(s, i, n - 1) + DigitValue(s[i + n - 1])

\* The parts of the longest numeric prefix of s: sign, integer digits, fraction
NumericPrefix(s) ==
    LET signed == Len(s) > 0 /\ s[1] \in {"-", "+"}
        start == IF signed THEN 2 ELSE 1
        nInt == DigitsRun(s, start)
        dot == start + nInt
        hasDot == dot <= Len(s) /\ s[dot] = "."
        nFrac == IF hasDot THEN DigitsRun(s, dot + 1) ELSE 0
    IN  [negative |-> signed /\ s[1] = "-", plus |-> signed /\ s[1] = "+",
         start |-> start, nInt |-> nInt, hasDot |-> hasDot, nFrac |-> nFrac,
         end |-> IF hasDot THEN dot + nFrac ELSE dot - 1]

\* parseFloat: the value of the longest numeric prefix, NaN when there is
\* none; in tenths, further decimals dropped (the texts here have at most
\* one decimal and no exponent)
parseFloat(s0) ==
    LET s == trim(s0)
        p == NumericPrefix(s)
        tenths == 10 * DigitsValue(s, p.start, p.nInt)
                    + (IF p.nFrac > 0 THEN DigitValue(s[p.start + p.nInt + 1]) ELSE 0)
    IN  IF p.nInt = 0 /\ p.nFrac = 0 THEN NaN
        ELSE IF p.negative THEN 0 - tenths ELSE tenths

\* A JSON number: -? digits (. digits)?, nothing before or after, no
\* leading zero
IsJsonNumber(s) ==
    LET p == NumericPrefix(s)
    IN  /\ ~p.plus
        /\ p.nInt >= 1
        /\ (p.nInt > 1 => s[p.start] # "0")
        /\ (p.hasDot => p.nFrac >= 1)
        /\ p.end = Len(s)

\* JSON.parse threw
Throws == [t |-> "throws"]

\* JSON.parse of a text: an array of numbers, a number, or a SyntaxError
JSONparse(text) ==
    LET s == trim(text)
    IN  IF Len(s) >= 2 /\ s[1] = "[" /\ s[Len(s)] = "]"
        THEN LET inner == SubSeq(s, 2, Len(s) - 1)
                 pieces == SplitOn(inner, ",")
                 items == [k \in 1..Len(pieces) |-> trim(pieces[k])]
             IN  IF trim(inner) = <<>> THEN [t |-> "array", v |-> <<>>]
                 ELSE IF \A k \in 1..Len(items) : IsJsonNumber(items[k])
                 THEN [t |-> "array", v |-> [k \in 1..Len(items) |-> parseFloat(items[k])]]
                 ELSE Throws
        ELSE IF IsJsonNumber(s) THEN Num(parseFloat(s))
        ELSE Throws

\* .replace(/[{}]/g, '')
RemoveBraces(s) == SelectSeq(s, LAMBDA c : c \notin {"{", "}"})

\* .split(',').map((v) => parseFloat(v.trim())).filter((v) => !isNaN(v))
ParseList(s) ==
    LET pieces == SplitOn(s, ",")
    IN  SelectSeq([k \in 1..Len(pieces) |-> parseFloat(trim(pieces[k]))],
                  LAMBDA v : v # NaN)

\* Variant: the braces are left in the text that is split
Decode_KeepsBraces(embedding) ==
    IF embedding.t = "string"
    THEN LET parsed == JSONparse(embedding.v)
         IN  IF parsed # Throws THEN parsed
             ELSE [t |-> "array", v |-> ParseList(embedding.v)]
    ELSE IF embedding.t = "array" THEN embedding
    ELSE [t |-> "unexpected"]

\* embVector: JSON.parse of a string, else the brace-stripped comma list; an
\* array as it is; anything else is an unexpected format
Decode(embedding) ==
    IF embedding.t = "string"
    THEN LET parsed == JSONparse(embedding.v)
         IN  IF parsed # Throws THEN parsed
             ELSE [t |-> "array", v |-> ParseList(RemoveBraces(embedding.v))]
    ELSE IF embedding.t = "array" THEN embedding
    ELSE [t |-> "unexpected"]

\* One fetched row decoded and scored; <<>> when it is left out
DecodeAndScore(emb, queryEmbedding) ==
    LET embVector == Decode(emb.embedding)
    IN  IF embVector.t # "array" THEN <<>>
        ELSE Scored([company_id |-> emb.company_id, embedding |-> embVector.v],
                    queryEmbedding)

\* The components of the stored vectors, in tenths: -1, -0.5, 0, 0.3, 1
Components == {0 - 10, 0 - 5, 0, 3, 10}

\* The column is vector(768): a stored vector has several components
StoredVectors == UNION {[1..d -> Components] : d \in 2..MaxDim}

\* The query vectors of a dimension: 0.1 everywhere, or 0.1 then zeros
QueriesOf(d) == {[k \in 1..d |-> 1], [k \in 1..d |-> IF k = 1 THEN 1 ELSE 0]}

\* A row of company_embeddings has been fetched in some encoding
Fetched(vector, encoding, queryEmbedding) ==
    [pc |-> "fetched", vector |-> vector, encoding |-> encoding,
     embedding |-> Encode(encoding, vector), queryEmbedding |-> queryEmbedding,
     embVector |-> Undefined, scored |-> <<>>]

InitDecode ==
    /\ decoder \in UNION {{Fetched(v, e, q) : e \in Encodings, q \in QueriesOf(Len(v))} :
                            v \in StoredVectors}
    /\ companies = <<>>
    /\ embedded = {}
    /\ env = FullEnv
    /\ req = [r \in Reqs |-> IdleReq]
    /\ summary = Off /\ listing = Off /\ importer = Off /\ copilot = Off

\* embeddings.map((emb) => ...): the row is decoded and scored
DecodeRow ==
    /\ decoder.pc = "fetched"
    /\ decoder' = [decoder EXCEPT
           !.pc = "scored",
           !.embVector = Decode(decoder.embedding),
           !.scored = DecodeAndScore([company_id |-> 1, embedding |-> decoder.embedding],
                                     decoder.queryEmbedding)]
    /\ UNCHANGED <<companies, embedded, env, req, summary, listing, importer, copilot>>

NextDecode == DecodeRow

SpecDecode == InitDecode /\ [][NextDecode]_vars

\* C16: whatever the encoding in which a stored vector was fetched (native
\* array, JSON array text, comma-delimited text with or without braces), the
\* decoded vector is the stored vector, and the row is scored as the native
\* array is
C16_DecodingIsFormatAgnostic ==
    decoder.pc = "scored" =>
        /\ decoder.embVector = [t |-> "array", v |-> decoder.vector]
        /\ decoder.scored =
              Scored([company_id |-> 1, embedding |-> decoder.vector],
                     decoder.queryEmbedding)

\* A vector with a negative and a fractional component, fetched as text in
\* braces, has been decoded and has passed the threshold
C16_Witness ==
    /\ decoder.pc = "scored"
    /\ decoder.encoding = "braces"
    /\ \E k \in 1..Len(decoder.vector) : decoder.vector[k] < 0
    /\ \E k \in 1..Len(decoder.vector) : decoder.vector[k] = 3
    /\ decoder.scored # <<>>

(***************************************************************************)
(* GET /api/insights/summary.  A row is what the select returns of one     *)
(* company: radical_primary_category (text or null), radical_all_categories *)
(* (text[] or null), radical_investment_year (integer or null).            *)
(***************************************************************************)
\* The largest number of rows the select returns
MaxRows == 3

Arr(v) == [t |-> "array", v |-> v]

Uncategorized == <<"U","n","c","a","t","e","g","o","r","i","z","e","d">>

SummaryRow(primary, all, year) ==
    [radical_primary_category |-> primary, radical_all_categories |-> all,
     radical_investment_year |-> year]

\* The rows the table can hold: with and without a primary category, with a
\* list that is null, empty, or starts with an empty text, with a year that
\* is null or 0
SummaryRows ==
    { SummaryRow(Str(<<"A","I">>), Arr(<< <<"A","I">>, <<"M","L">> >>), Num(2023)),
      SummaryRow(JsonNull, Arr(<< <<"B","i","o">> >>), Num(2024)),
      SummaryRow(JsonNull, JsonNull, JsonNull),
      SummaryRow(JsonNull, Arr(<<>>), Num(2023)),
      SummaryRow(Str(<<>>), Arr(<< <<"B","i","o">> >>), Num(2024)),
      SummaryRow(JsonNull, Arr(<< <<>> >>), Num(2023)),
      SummaryRow(Str(<<"A","I">>), Arr(<< <<"A","I">> >>), Num(0)) }

\* ToBoolean of a JSON value: null, undefined, "" and 0 are falsy
ToBoolean(v) ==
    CASE v.t = "string" -> v.v # <<>>
      [] v.t = "number" -> v.v # 0
      [] v.t = "array" -> TRUE
      [] OTHER -> FALSE

\* company.radical_primary_category || (all && all.length > 0 ? all[0] : 'Uncategorized')
CategoryOf(company) ==
    IF ToBoolean(company.radical_primary_category)
    THEN company.radical_primary_category.v
    ELSE IF ToBoolean(company.radical_all_categories)
            /\ Len(company.radical_all_categories.v) > 0
         THEN company.radical_all_categories.v[1]
         ELSE Uncategorized

\* map.set(key, (map.get(key) || 0) + 1), the map kept in insertion order
Increment(map, key) ==
    IF \E k \in 1..Len(map) : map[k].key = key
    THEN [k \in 1..Len(map) |->
            IF map[k].key = key THEN [map[k] EXCEPT !.count = @ + 1] ELSE map[k]]
    ELSE Append(map, [key |-> key, count |-> 1])

\* for (const company of companies) { ...; if (category) categoryMap.set(...) }
RECURSIVE CategoryMap(_)
CategoryMap(rows) ==
    IF rows = <<>> THEN <<>>
    ELSE LET map == CategoryMap(SubSeq(rows, 1, Len(rows) - 1))
             category == CategoryOf(rows[Len(rows)])
         IN  IF category # <<>> THEN Increment(map, category) ELSE map

\* for (const company of companies) { if (company.radical_investment_year) yearMap.set(...) }
RECURSIVE YearMap(_)
YearMap(rows) ==
    IF rows = <<>> THEN <<>>
    ELSE LET map == YearMap(SubSeq(rows, 1, Len(rows) - 1))
             year == rows[Len(rows)].radical_investment_year
         IN  IF ToBoolean(year) THEN Increment(map, year.v) ELSE map

\* Stable insertion of e into a list kept by descending count
RECURSIVE InsertByCount(_, _)
InsertByCount(sorted, e) ==
    IF sorted = <<>> THEN <<e>>
    ELSE IF sorted[Len(sorted)].count >= e.count THEN Append(sorted, e)
    ELSE Append(InsertByCount(SubSeq(sorted, 1, Len(sorted) - 1), e), sorted[Len(sorted)])

\* .sort((a, b) => b.count - a.count)
RECURSIVE SortByCountDesc(_)
SortByCountDesc(seq) ==
    IF seq = <<>> THEN <<>>
    ELSE InsertByCount(SortByCountDesc(SubSeq(seq, 1, Len(seq) - 1)), seq[Len(seq)])

RECURSIVE InsertByYear(_, _)
InsertByYear(sorted, e) ==
    IF sorted = <<>> THEN <<e>>
    ELSE IF sorted[Len(sorted)].key <= e.key THEN Append(sorted, e)
    ELSE Append(InsertByYear(SubSeq(sorted, 1, Len(sorted) - 1), e), sorted[Len(sorted)])

\* .sort((a, b) => a.year - b.year)
RECURSIVE SortByYear(_)
SortByYear(seq) ==
    IF seq = <<>> THEN <<>>
    ELSE InsertByYear(SortByYear(SubSeq(seq, 1, Len(seq) - 1)), seq[Len(seq)])

\* Array.from(categoryMap.entries()).map(([category, count]) => ...).sort(...)
ByCategory(rows) ==
    LET sorted == SortByCountDesc(CategoryMap(rows))
    IN  [k \in 1..Len(sorted) |-> [category |-> sorted[k].key, count |-> sorted[k].count]]

\* Array.from(yearMap.entries()).map(([year, count]) => ...).sort(...)
ByYear(rows) ==
    LET sorted == SortByYear(YearMap(rows))
    IN  [k \in 1..Len(sorted) |-> [year |-> sorted[k].key, count |-> sorted[k].count]]

\* The tables' rows the select can return: up to MaxRows rows
SummaryTables == UNION {[1..n -> SummaryRows] : n \in 0..MaxRows}

IdleSummary == [pc |-> "idle", companies |-> <<>>, responses |-> <<>>]

InitSummary ==
    /\ summary = IdleSummary
    /\ companies = <<>>
    /\ embedded = {}
    /\ env = FullEnv
    /\ req = [r \in Reqs |-> IdleReq]
    /\ decoder = Off /\ listing = Off /\ importer = Off /\ copilot = Off

SetSummary(st) ==
    summary' = st /\ UNCHANGED <<companies, embedded, env, req, decoder, listing, importer, copilot>>

\* router.get('/summary'): the select is issued
SummaryStart ==
    /\ summary.pc = "idle"
    /\ SetSummary([summary EXCEPT !.pc = "select"])

\* The select returns rows: both groupings are computed and sent
SummaryReturns ==
    /\ summary.pc = "select"
    /\ \E rows \in SummaryTables :
         SetSummary([summary EXCEPT
             !.pc = "done",
             !.companies = rows,
             !.responses = <<[status |-> 200,
                              body |-> [byCategory |-> ByCategory(rows),
                                        byYear |-> ByYear(rows)]]>>])

\* The select returns an error: throw error, caught, 500
SummaryFails ==
    /\ summary.pc = "select"
    /\ SetSummary([summary EXCEPT
           !.pc = "done",
           !.responses = <<[status |-> 500,
                            body |-> [error |-> [message |-> "Failed to fetch insights"]]]>>])

NextSummary == SummaryStart \/ SummaryReturns \/ SummaryFails

SpecSummary == InitSummary /\ [][NextSummary]_vars

\* The sum of the counts of a grouping
RECURSIVE SumCounts(_)
SumCounts(groups) ==
    IF groups = <<>> THEN 0 ELSE Head(groups).count + SumCounts(Tail(groups))

\* The summary has been answered with status 200
SummaryAnswered == summary.pc = "done" /\ summary.responses[1].status = 200

\* C17: every company read is counted once in byCategory, under its primary
\* category, else the first of its categories, else 'Uncategorized', so the
\* counts sum to the number of companies; byYear counts exactly the
\* companies that have an investment year
C17_EveryCompanyCounted ==
    SummaryAnswered =>
        LET rows == summary.companies
            byCategory == summary.responses[1].body.byCategory
            byYear == summary.responses[1].body.byYear
        IN  /\ SumCounts(byCategory) = Len(rows)
            /\ \A g \in Range(byCategory) :
                  g.count = Cardinality({k \in 1..Len(rows) : CategoryOf(rows[k]) = g.category})
            /\ SumCounts(byYear) =
                  Cardinality({k \in 1..Len(rows) : rows[k].radical_investment_year # JsonNull})
            /\ \A g \in Range(byYear) :
                  g.count = Cardinality({k \in 1..Len(rows) :
                                rows[k].radical_investment_year = Num(g.year)})

(***************************************************************************)
(* GET /api/companies: limit, offset and the row range asked of the store. *)
(***************************************************************************)
DefaultLimit == 20

MaxLimit == 100

DefaultOffset == 0

\* The texts of the limit and offset query parameters; Undefined when absent
LimitInputs ==
    { Undefined, Str(<<>>), Str(<<"1","0">>), Str(<<"2","0","0">>), Str(<<"a","b","c">>),
      Str(<<"0">>), Str(<<"-","5">>), Str(<<"1","0","a","b","c">>), Str(<<"5",".","7">>),
      Str(<<" ","7">>) }

OffsetInputs ==
    { Undefined, Str(<<"5">>), Str(<<"x","y","z">>), Str(<<"0">>), Str(<<"-","3">>),
      Str(<<"2","x">>) }

\* String.prototype.trimStart: parseInt skips leading white space
RECURSIVE trimStart(_)
trimStart(s) == IF s # <<>> /\ IsSpace(Head(s)) THEN trimStart(Tail(s)) ELSE s

\* parseInt(text, 10): the integer the text starts with, NaN when it starts
\* with none
parseInt(text) ==
    LET s == trimStart(text)
        p == NumericPrefix(s)
        n == DigitsValue(s, p.start, p.nInt)
    IN  IF p.nInt = 0 THEN NaN
        ELSE IF p.negative THEN 0 - n ELSE n

\* a || b on numbers: b when a is NaN or 0
OrElse(a, b) == IF a = NaN \/ a = 0 THEN b ELSE a

\* const { limit = '20', offset = '0' } = req.query
WithDefault(v, n) == IF v = Undefined THEN NatText(n) ELSE v.v

\* Math.min(parseInt(limit as string, 10) || 20, 100)
LimitNum(limit) ==
    LET n == OrElse(parseInt(WithDefault(limit, DefaultLimit)), DefaultLimit)
    IN  IF n < MaxLimit THEN n ELSE MaxLimit

\* parseInt(offset as string, 10) || 0
OffsetNum(offset) == OrElse(parseInt(WithDefault(offset, DefaultOffset)), DefaultOffset)

\* Variant: the last index is offset + limit
PageRange_EndExclusive(offsetNum, limitNum) ==
    [first |-> offsetNum, last |-> offsetNum + limitNum]

\* query.range(offsetNum, offsetNum + limitNum - 1)
PageRange(offsetNum, limitNum) ==
    [first |-> offsetNum, last |-> offsetNum + limitNum - 1]

IdleListing ==
    [pc |-> "idle", query |-> [limit |-> Undefined, offset |-> Undefined],
     range |-> Undefined, responses |-> <<>>]

InitListing ==
    /\ listing = IdleListing
    /\ companies = <<>>
    /\ embedded = {}
    /\ env = FullEnv
    /\ req = [r \in Reqs |-> IdleReq]
    /\ decoder = Off /\ summary = Off /\ importer = Off /\ copilot = Off

SetListing(st) ==
    listing' = st /\ UNCHANGED <<companies, embedded, env, req, decoder, summary, importer, copilot>>

\* router.get('/'): limit and offset are read, the range is set, the query
\* is awaited
ListStart ==
    /\ listing.pc = "idle"
    /\ \E limit \in LimitInputs, offset \in OffsetInputs :
         SetListing([listing EXCEPT
             !.pc = "query",
             !.query = [limit |-> limit, offset |-> offset],
             !.range = PageRange(OffsetNum(offset), LimitNum(limit))])

\* The query returns rows: res.json({companies, total})
ListReturns ==
    /\ listing.pc = "query"
    /\ SetListing([listing EXCEPT !.pc = "done", !.responses = <<[status |-> 200]>>])

\* The query returns an error: throw error, caught, 500
ListFails ==
    /\ listing.pc = "query"
    /\ SetListing([listing EXCEPT
           !.pc = "done",
           !.responses = <<[status |-> 500,
                            body |-> [error |-> [message |-> "Failed to fetch companies"]]]>>])

NextListing == ListStart \/ ListReturns \/ ListFails

SpecListing == InitListing /\ [][NextListing]_vars

\* The integer a text starts with, white space skipped: the value of its
\* longest prefix made of an optional sign and digits; NaN when there is none
LeadingInteger(v) ==
    IF v = Undefined THEN NaN
    ELSE LET s == trimStart(v.v)
             signed == s # <<>> /\ s[1] \in {"-", "+"}
             body == IF signed THEN Tail(s) ELSE s
             lens == {n \in 1..Len(body) : \A k \in 1..n : IsDigit(body[k])}
         IN  IF lens = {} THEN NaN
             ELSE LET n == CHOOSE m \in lens : \A o \in lens : o <= m
                      value == DigitsValue(body, 1, n)
                  IN  IF signed /\ s[1] = "-" THEN 0 - value ELSE value

Capped(n) == IF n > MaxLimit THEN MaxLimit ELSE n

\* The range has been sent to the store
RangeSent == listing.pc \in {"query", "done"}

\* C18 as stated: the range is [offset, offset + limit - 1], limit being the
\* query value (the integer it starts with) capped at 100, 20 when absent or
\* not a number, and offset the query value, 0 when absent or not a number
C18_Original ==
    RangeSent =>
        LET l == LeadingInteger(listing.query.limit)
            o == LeadingInteger(listing.query.offset)
            limit == IF l = NaN THEN DefaultLimit ELSE Capped(l)
            offset == IF o = NaN THEN DefaultOffset ELSE o
        IN  listing.range = [first |-> offset, last |-> offset + limit - 1]

\* C18 amended: limit is the integer the query value starts with, capped at
\* 100, and 20 when the value is absent, starts with no integer, or that
\* integer is 0; offset is the integer its query value starts with, 0 when
\* absent or starting with no integer
C18_RangeFromLeadingIntegers ==
    RangeSent =>
        LET l == LeadingInteger(listing.query.limit)
            o == LeadingInteger(listing.query.offset)
            limit == IF l = NaN \/ l = 0 THEN DefaultLimit ELSE Capped(l)
            offset == IF o = NaN THEN DefaultOffset ELSE o
        IN  /\ listing.range.first = offset
            /\ listing.range.last - listing.range.first + 1 = limit

\* limit=200&offset=5 has been sent as the range [5, 104]
C18_Witness ==
    /\ RangeSent
    /\ listing.query = [limit |-> Str(<<"2","0","0">>), offset |-> Str(<<"5">>)]
    /\ listing.range = [first |-> 5, last |-> 104]

(***************************************************************************)
(* The import script.  A company row is its id, its slug and its content   *)
(* (text stands for the columns that are written, and is what is           *)
(* embedded); an embedding row is (company_id, source, embedding).         *)
(***************************************************************************)
\* The largest number of companies in the data file
MaxFile == 2

ImportInput(slug, text) == [slug |-> slug, text |-> text]

\* The entries a data file is made of: two contents for the slug "a", and a
\* company with nothing to embed
ImportInputs == {ImportInput("a", "x"), ImportInput("a", "y"), ImportInput("b", "")}

DataFiles == UNION {[1..n -> ImportInputs] : n \in 0..MaxFile}

\* generateEmbedding(embeddingInput): the same vector for the same input
EmbeddingOf(text) == IF text = "x" THEN <<1, 0>> ELSE <<0, 1>>

\* `[${embedding.join(',')}]`, cast by the store to the vector it denotes
StoredAs(embedding) ==
    JSONparse(<<"[">> \o join([k \in 1..Len(embedding) |-> NumberText(embedding[k])],
                               <<",">>) \o <<"]">>).v

CompanyRow(id, slug, text) == [id |-> id, slug |-> slug, text |-> text]

EmbeddingRow(company_id, source, embedding) ==
    [company_id |-> company_id, source |-> source, embedding |-> embedding]

\* The tables before the first run: empty, or one company imported earlier
\* from other content, with its embedding
InitialTables ==
    { [companies |-> <<>>, embeddings |-> <<>>],
      [companies |-> <<CompanyRow(1, "a", "old")>>,
       embeddings |-> <<EmbeddingRow(1, "description", <<1, 1>>)>>],
      [companies |-> <<CompanyRow(1, "b", "old")>>,
       embeddings |-> <<EmbeddingRow(1, "description", <<1, 1>>)>>] }

\* .upsert({...}, {onConflict: 'slug'}).select('id').single()
UpsertCompany(rows, input) ==
    IF \E k \in 1..Len(rows) : rows[k].slug = input.slug
    THEN LET k == CHOOSE j \in 1..Len(rows) : rows[j].slug = input.slug
         IN  [companies |-> [rows EXCEPT ![k].text = input.text], id |-> rows[k].id]
    ELSE [companies |-> Append(rows, CompanyRow(Len(rows) + 1, input.slug, input.text)),
          id |-> Len(rows) + 1]

\* .delete().eq('company_id', companyId).eq('source', source)
DeleteEmbedding(rows, companyId, source) ==
    SelectSeq(rows, LAMBDA e : ~(e.company_id = companyId /\ e.source = source))

\* UNIQUE(company_id, source)
Conflicts(rows, companyId, source) ==
    \E k \in 1..Len(rows) : rows[k].company_id = companyId /\ rows[k].source = source

IdleImport(file, tables) ==
    [pc |-> "idle", file |-> file, companies |-> tables.companies,
     embeddings |-> tables.embeddings, run |-> 1, i |-> 0, companyId |-> 0,
     embedding |-> <<>>, had |-> 0, successCount |-> 0, errorCount |-> 0,
     first |-> [finished |-> FALSE, errorCount |-> 0, companies |-> <<>>,
                embeddings |-> <<>>]]

InitImport ==
    /\ importer \in {IdleImport(file, tables) : file \in DataFiles, tables \in InitialTables}
    /\ companies = <<>>
    /\ embedded = {}
    /\ env = FullEnv
    /\ req = [r \in Reqs |-> IdleReq]
    /\ decoder = Off /\ summary = Off /\ listing = Off /\ copilot = Off

SetImport(st) ==
    importer' = st /\ UNCHANGED <<companies, embedded, env, req, decoder, summary, listing, copilot>>

\* for (let i = 0; i < portfolioData.companies.length; i++): the next
\* company's upsert is awaited, or the run ends
NextCompany(st) ==
    IF st.i < Len(st.file)
    THEN [st EXCEPT !.i = @ + 1, !.pc = "upsert"]
    ELSE [st EXCEPT !.pc = "finished"]

\* catch (error) { errorCount++ }
ImportError(st) == NextCompany([st EXCEPT !.errorCount = @ + 1])

\* importCompanies(): the file is read, the loop begins
ImportStart ==
    /\ importer.pc = "idle"
    /\ SetImport(NextCompany(importer))

\* upsertCompany returns the id, or throws
ImportUpsertReturns ==
    /\ importer.pc = "upsert"
    /\ \E ok \in BOOLEAN :
         LET input == importer.file[importer.i]
             res == UpsertCompany(importer.companies, input)
             st == [importer EXCEPT !.companies = res.companies, !.companyId = res.id,
                                    !.had = 0]
         IN  IF ~ok THEN SetImport(ImportError(importer))
             ELSE IF input.text = ""
             THEN SetImport(NextCompany([st EXCEPT !.successCount = @ + 1]))
             ELSE SetImport([st EXCEPT !.pc = "embed"])

\* The 'description' embedding rows of a company
EmbeddingsOf(rows, companyId) ==
    SelectSeq(rows, LAMBDA e : e.company_id = companyId /\ e.source = "description")

\* generateEmbedding returns: upsertEmbedding is called and its delete is
\* awaited; had records how many embedding rows the company has at the call
ImportEmbeddingReturns ==
    /\ importer.pc = "embed"
    /\ SetImport([importer EXCEPT
           !.embedding = EmbeddingOf(importer.file[importer.i].text),
           !.had = Len(EmbeddingsOf(importer.embeddings, importer.companyId)),
           !.pc = "delete"])

\* generateEmbedding throws
ImportEmbeddingFails ==
    /\ importer.pc = "embed"
    /\ SetImport(ImportError(importer))

\* The delete returns; its result is not looked at
ImportDeleteReturns ==
    /\ importer.pc = "delete"
    /\ \E ok \in BOOLEAN :
         SetImport([importer EXCEPT
             !.embeddings = IF ok THEN DeleteEmbedding(@, importer.companyId, "description")
                            ELSE @,
             !.pc = "insert"])

\* The insert returns: a row is added, or the error is thrown
ImportInsertReturns ==
    /\ importer.pc = "insert"
    /\ \E ok \in BOOLEAN :
         IF ok /\ ~Conflicts(importer.embeddings, importer.companyId, "description")
         THEN SetImport(NextCompany([importer EXCEPT
                  !.embeddings = Append(@, EmbeddingRow(importer.companyId, "description",
                                                        StoredAs(importer.embedding))),
                  !.successCount = @ + 1]))
         ELSE SetImport(ImportError(importer))

\* npm run import, a second time over the same file
ImportAgain ==
    /\ importer.pc = "finished"
    /\ importer.run = 1
    /\ SetImport(NextCompany([importer EXCEPT
           !.run = 2, !.i = 0, !.successCount = 0, !.errorCount = 0,
           !.first = [finished |-> TRUE, errorCount |-> importer.errorCount,
                      companies |-> importer.companies,
                      embeddings |-> importer.embeddings]]))

NextImport ==
    \/ ImportStart
    \/ ImportUpsertReturns
    \/ ImportEmbeddingReturns
    \/ ImportEmbeddingFails
    \/ ImportDeleteReturns
    \/ ImportInsertReturns
    \/ ImportAgain

SpecImport == InitImport /\ [][NextImport]_vars

\* One company row per slug, one embedding row per (company, source)
OneRowPerKey ==
    /\ \A j, k \in 1..Len(importer.companies) :
          importer.companies[j].slug = importer.companies[k].slug => j = k
    /\ \A j, k \in 1..Len(importer.embeddings) :
          (/\ importer.embeddings[j].company_id = importer.embeddings[k].company_id
           /\ importer.embeddings[j].source = importer.embeddings[k].source) => j = k

\* The tables hold the rows they held at the end of the first run
AsAfterFirstRun ==
    /\ importer.companies = importer.first.companies
    /\ Range(importer.embeddings) = Range(importer.first.embeddings)
    /\ Len(importer.embeddings) = Len(importer.first.embeddings)

\* The second run has ended, the first having imported every company
SecondRunEnded ==
    /\ importer.pc = "finished"
    /\ importer.run = 2
    /\ importer.first.errorCount = 0

\* C19: a second run of the import over the same file, the provider giving
\* the same vectors, leaves both tables as the first run left them, with one
\* company row per slug and one embedding row per (company, 'description')
C19_SecondRunChangesNothing ==
    SecondRunEnded => AsAfterFirstRun /\ OneRowPerKey

\* The same, for a second run in which no company was counted as an error
C19_CleanSecondRunChangesNothing ==
    (SecondRunEnded /\ importer.errorCount = 0) => AsAfterFirstRun /\ OneRowPerKey

(***************************************************************************)
(* The order of the retrieval stages.                                      *)
(***************************************************************************)

\* The store queries of retrieval: every read but the lookup of the slug
RetrievalOps == ReadOps \ {"selectBySlug"}

\* The stage a retrieval query belongs to: 1 count probe, 2 vector search
\* (the RPC, or the client-side search that stands in for it), 3 keyword
\* search, 4 blind fallback
StageOf(op) ==
    CASE op = "countEmbeddings" -> 1
      [] op \in {"rpc", "selectEmbeddings", "selectCompaniesIn"} -> 2
      [] op = "selectKeyword" -> 3
      [] op = "selectAll" -> 4

\* The retrieval queries a request has issued so far, in order
RetrievalCalls(st) == SelectSeq(st.calls, LAMBDA c : c.op \in RetrievalOps)

\* The queries of one stage
StageCalls(st, n) == SelectSeq(RetrievalCalls(st), LAMBDA c : StageOf(c.op) = n)

\* The count probe comes first, no query of an earlier stage follows one of
\* a later stage, and the count probe, the keyword query and the blind
\* fallback are issued at most once
StagesInOrder(st) ==
    LET issued == RetrievalCalls(st)
    IN  /\ \A i, j \in 1..Len(issued) :
              i < j => StageOf(issued[i].op) <= StageOf(issued[j].op)
        /\ Len(issued) > 0 => issued[1].op = "countEmbeddings"
        /\ \A n \in {1, 3, 4} : Len(StageCalls(st, n)) <= 1

\* This step of request r issues a query of stage n
Issues(r, n) ==
    /\ Len(req'[r].calls) = Len(req[r].calls) + 1
    /\ req'[r].calls[Len(req'[r].calls)].op \in RetrievalOps
    /\ StageOf(req'[r].calls[Len(req'[r].calls)].op) = n

\* No candidate has been found so far
NoCandidates(st) == Len(st.topCompanies) = 0 /\ st.stage = "none"

\* The vector search has ended with no candidate, or was skipped because
\* the count probe found no embedding
VectorEndedEmpty(st) ==
    /\ NoCandidates(st)
    /\ \/ Len(StageCalls(st, 2)) > 0
       \/ Len(StageCalls(st, 1)) > 0 /\ NoEmbeddings(st.embeddingCount)

\* The keyword query has been issued and has ended with no candidate
KeywordEndedEmpty(st) == NoCandidates(st) /\ Len(StageCalls(st, 3)) > 0

\* The keyword search had nothing to ask for: no word of the message is
\* longer than 3 characters
KeywordSkipped(st) ==
    /\ NoCandidates(st)
    /\ Len(StageCalls(st, 3)) = 0
    /\ Len(LongerThan(split(toLowerCase(Message(st))), 3)) = 0

\* What the claim says of every step but the blind fallback's: the order of
\* the stages, one outstanding query at a time, the keyword query only after
\* an empty or skipped vector search, and no query once there are candidates
StagesOneAtATime(r) ==
    /\ StagesInOrder(req'[r])
    /\ (\E n \in 1..4 : Issues(r, n)) => req[r].pc # req'[r].pc
    /\ Issues(r, 3) => VectorEndedEmpty([req'[r] EXCEPT !.calls = req[r].calls])
    /\ req[r].stage # "none" => RetrievalCalls(req'[r]) = RetrievalCalls(req[r])

ChurnEnv ==
    [bodies |-> [message : {Str(<<"a","i">>), Str(<<"A","C","M","E"," ","a","i">>),
                            Str(<<" ","z","z","z","z">>)},
                 selectedCompanySlug : {Undefined, Str(SlugOf(1))},
                 topK : {Undefined}],
     reachable |-> BOOLEAN,
     vectors |-> { <<1, 0>>, <<0, 0 - 1>> },
     replies |-> { <<"A","c","m","e">>, <<"x","A","m","D">> }]

InitChurn ==
    /\ companies = Rotation(NCompanies, 0)
    /\ embedded \in {{}, Range(companies)}
    /\ env = ChurnEnv
    /\ req = [r \in Reqs |-> IdleReq]
    /\ ElsewhereOff

\* DELETE FROM companies WHERE id = i, by another client; at most one row
\* goes while the model runs
DeleteCompany ==
    /\ Len(companies) = NCompanies
    /\ \E i \in Range(companies) :
         /\ companies' = SelectSeq(companies, LAMBDA j : j # i)
         /\ embedded' = embedded \ {i}
    /\ UNCHANGED <<env, req, elsewhere>>

NextChurn == Step(1) \/ DeleteCompany

SpecChurn == InitChurn /\ [][NextChurn]_vars

\* The place of the similarity RPC in a request's calls, 0 when none
RpcAt(st) ==
    IF \E k \in 1..Len(st.calls) : st.calls[k].op = "rpc"
    THEN CHOOSE k \in 1..Len(st.calls) : st.calls[k].op = "rpc"
    ELSE 0

\* The RPC of the request returned an error
RpcFailed(st) ==
    /\ RpcAt(st) > 0
    /\ Len(st.oracle) >= RpcAt(st)
    /\ ~st.oracle[RpcAt(st)].ok

\* Every call after the RPC has returned without an error
RestSucceeded(st) ==
    /\ Len(st.oracle) = Len(st.calls)
    /\ \A k \in (RpcAt(st) + 1)..Len(st.oracle) : st.oracle[k].ok

\* The operation of the call that follows the RPC's
AfterRpc(st, n) ==
    IF Len(st.calls) >= RpcAt(st) + n THEN st.calls[RpcAt(st) + n].op ELSE "none"

\* C21: a request whose similarity RPC returned an error fetches the stored
\* embeddings next and scores them itself; it answers 500 only when a later
\* call fails, and 200 when every later call succeeds; and when the
\* client-side search leaves no candidate the keyword stage comes next (the
\* keyword query, or the blind fallback for a message with nothing to
\* search for)
C21_RpcErrorIsNotFatal ==
    \A r \in Reqs :
        (req[r].pc = "done" /\ RpcFailed(req[r])) =>
            /\ AfterRpc(req[r], 1) = "selectEmbeddings"
            /\ RestSucceeded(req[r]) => Responded(r, 200)
            /\ Responded(r, 500) => ~RestSucceeded(req[r])
            /\ (req[r].stage # "client" /\ req[r].thrown # "TypeError") =>
                   \E n \in 2..3 : AfterRpc(req[r], n) \in {"selectKeyword", "selectAll"}

\* C26: on the client-side path every candidate handed to context building
\* has the company row the lookup returned for it, and a similarity hit
\* whose row the lookup did not return does not end the request with a 500
C26_EveryCandidateHasItsRow ==
    \A r \in Reqs :
        req[r].stage = "client" =>
            /\ ~HasUndefinedCompany(req[r].topCompanies)
            /\ req[r].thrown # "TypeError"
            /\ req[r].pc = "done" /\ RestSucceeded(req[r]) => Responded(r, 200)

(***************************************************************************)
(* The distances of the stages, compared.                                  *)
(***************************************************************************)
\* The distances the keyword stage gives its matches, one per branch that
\* reaches it
KeywordStageDistances == {KeywordDistanceNoEmbeddings, KeywordDistance}

\* The stages that are vector searches, and those that are keyword searches
VectorStages == {"rpc", "client"}

KeywordStages == {"keywordNoEmbeddings", "keyword"}

\* C22: every keyword-stage candidate carries the one distance both
\* branches of the keyword stage assign; every vector-stage candidate has a
\* distance strictly below it, and blind-fallback candidates one strictly
\* above it
C22_KeywordDistanceBetween ==
    \A r \in Reqs : \A k \in 1..Len(req[r].topCompanies) :
        \A d \in KeywordStageDistances :
            /\ req[r].stage \in KeywordStages => req[r].topCompanies[k].distance = d
            /\ req[r].stage \in VectorStages => req[r].topCompanies[k].distance < d
            /\ req[r].stage = "all" => d < req[r].topCompanies[k].distance

(***************************************************************************)
(* Client-side scoring of a batch of stored embeddings, some of which      *)
(* cannot be scored: the wrong number of components, or all zero.          *)
(***************************************************************************)
MaxStored == 3

\* Stored vectors: three that can be scored against a query of two
\* components, an orthogonal one, the zero vector, one too short, one too long
BatchVectors ==
    { <<1, 0>>, <<1, 1>>, <<2, 1>>, <<0, 1>>, <<0, 0>>, <<1>>, <<1, 0, 0>> }

BatchQueries == { <<1, 0>>, <<1, 2>> }

\* data of from('company_embeddings').select('company_id, embedding'): row k
\* belongs to company k
Batches ==
    UNION {[1..n -> BatchVectors] : n \in 1..MaxStored}

Fetched_Batch(vectors, q, topK) ==
    [pc |-> "batch",
     embeddings |-> [k \in 1..Len(vectors) |-> [company_id |-> k, embedding |-> vectors[k]]],
     queryEmbedding |-> q, topK |-> topK, similarities |-> <<>>]

InitBatch ==
    /\ decoder \in {Fetched_Batch(v, q, k) :
                      v \in Batches, q \in BatchQueries, k \in {MinTopK, DefaultTopK}}
    /\ companies = <<>> /\ embedded = {} /\ env = FullEnv
    /\ req = [r \in Reqs |-> IdleReq]
    /\ summary = Off /\ listing = Off /\ importer = Off /\ copilot = Off

\* const similarities = embeddings.map(...).filter(...).sort(...).slice(0, topK)
ScoreBatch ==
    /\ decoder.pc = "batch"
    /\ decoder' = [decoder EXCEPT
           !.pc = "scored",
           !.similarities = Similarities(decoder.embeddings, decoder.queryEmbedding,
                                         decoder.topK)]
    /\ UNCHANGED <<companies, embedded, env, req, summary, listing, importer, copilot>>

NextBatch == ScoreBatch

SpecBatch == InitBatch /\ [][NextBatch]_vars

\* The row cannot be scored against the query: another number of
\* components, or norm zero
Unscorable(emb, q) ==
    Len(emb.embedding) # Len(q) \/ Dot(emb.embedding, emb.embedding) = 0

\* C23: after scoring, no candidate comes from a stored embedding of another
\* length than the query's or of norm zero, and the candidates are those the
\* same batch gives without these rows
C23_UnscorableRowsLeftOut ==
    decoder.pc = "scored" =>
        LET q == decoder.queryEmbedding
            others == SelectSeq(decoder.embeddings, LAMBDA emb : ~Unscorable(emb, q))
        IN  /\ \A k \in 1..Len(decoder.similarities) :
                  \A j \in 1..Len(decoder.embeddings) :
                      decoder.embeddings[j].company_id = decoder.similarities[k].company_id
                          => ~Unscorable(decoder.embeddings[j], q)
            /\ decoder.similarities = Similarities(others, q, decoder.topK)

\* A scored batch with a zero vector, a vector of another length and a
\* vector that became a candidate
C23_Witness ==
    /\ decoder.pc = "scored"
    /\ \E j \in 1..Len(decoder.embeddings) : decoder.embeddings[j].embedding = <<0, 0>>
    /\ \E j \in 1..Len(decoder.embeddings) : Len(decoder.embeddings[j].embedding) # 2
    /\ Len(decoder.similarities) > 0

(***************************************************************************)
(* The keyword token, in the two branches that reach the keyword stage.    *)
(***************************************************************************)
\* The lengths a word must exceed to be searched for: w.length > 2 in the
\* no-embeddings branch, word.length > 3 after an empty vector search
KeywordMinLengths == {2, 3}

\* message.toLowerCase().split(/\s+/).filter((w) => w.length > min)
SearchTerms(st, min) == LongerThan(split(toLowerCase(Message(st))), min)

\* The request has reached the keyword stage: the count probe found no
\* embedding, or the vector stage ended and the blind fallback was issued
KeywordStageReached(st) ==
    \/ /\ \E k \in 1..Len(st.calls) : st.calls[k].op = "countEmbeddings"
       /\ st.pc \notin {"count", "lookup", "idle"}
       /\ NoEmbeddings(st.embeddingCount)
       /\ st.thrown = "none"
    \/ \E k \in 1..Len(st.calls) : st.calls[k].op \in {"selectKeyword", "selectAll"}

\* C24: whichever branch reached the keyword stage, the token of the keyword
\* query is the first lowercased word of the message longer than the minimum
\* length, and the query is left out exactly when the message has no such
\* word
C24_TokenDependsOnMessageOnly ==
    \A r \in Reqs : \A min \in KeywordMinLengths :
        KeywordStageReached(req[r]) =>
            LET issued == CallsOf(r, {"selectKeyword"})
                terms == SearchTerms(req[r], min)
            IN  /\ Len(issued) > 0 <=> Len(terms) > 0
                /\ \A k \in 1..Len(issued) : Len(terms) > 0 /\ issued[k].token = terms[1]

(***************************************************************************)
(* A store with more companies than any stage may return, so that every    *)
(* limit and slice of retrieval cuts something off.                        *)
(***************************************************************************)
\* One company more than the blind fallback reads
Crowd == FallbackLimit + 1

CrowdedEnv ==
    [bodies |-> [message : {Str(<<"a","i">>), Str(<<"d","a","t","a">>),
                            Str(<<" ","z","z","z","z">>)},
                 selectedCompanySlug : {Undefined, Str(SlugOf(Crowd))},
                 topK : {Undefined, Num(1)}],
     reachable |-> BOOLEAN,
     vectors |-> { <<1, 0>>, <<0, 0 - 1>> },
     replies |-> { <<"A","c","m","e">>, <<"x","A","m","D">> }]

InitCrowded ==
    /\ companies = [k \in 1..Crowd |-> k]
    /\ embedded \in {{}, Range(companies)}
    /\ env = CrowdedEnv
    /\ req = [r \in Reqs |-> IdleReq]
    /\ ElsewhereOff

NextCrowded == Step(1)

SpecCrowded == InitCrowded /\ [][NextCrowded]_vars

\* The larger of two numbers
LargerOf(a, b) == IF a > b THEN a ELSE b

\* C25: the candidates of the vector stage (RPC or client-side) and of the
\* keyword stage are never more than topK, those of the blind fallback never
\* more than 30, and no context list handed to the completion provider has
\* more than max(topK, 30) + 1 entries
C25_CandidatesBounded ==
    \A r \in Reqs :
        /\ req[r].stage \in VectorStages \cup KeywordStages
               => Len(req[r].topCompanies) <= req[r].topK
        /\ req[r].stage = "all" => Len(req[r].topCompanies) <= FallbackLimit
        /\ \A k \in 1..Len(req[r].calls) :
               req[r].calls[k].op = "generateChatCompletion"
                   => Len(req[r].calls[k].ctx) <= LargerOf(req[r].topK, FallbackLimit) + 1

\* A request answered from the blind fallback with 30 candidates and the
\* pinned company as the 31st entry of its context, on a store of 31
C25_Witness ==
    \E r \in Reqs :
        /\ Responded(r, 200)
        /\ req[r].stage = "all"
        /\ Len(companies) > FallbackLimit
        /\ Len(req[r].topCompanies) = FallbackLimit
        /\ Len(req[r].portfolioCompanies) = FallbackLimit + 1

\* The last call of upsertEmbedding has ended, by returning or by throwing
UpsertEmbeddingEnded ==
    importer.pc \in {"upsert", "finished"} /\ importer.companyId # 0

\* C27: a company that had a 'description' embedding when upsertEmbedding
\* was called has exactly one when the call has ended, whether the call
\* returned or threw
C27_EmbeddingSurvivesUpsert ==
    (UpsertEmbeddingEnded /\ importer.had = 1) =>
        Len(EmbeddingsOf(importer.embeddings, importer.companyId)) = 1

\* C28: whatever the limit and offset query values, the range sent to the
\* store starts at 0 or later and ends at its start or later, so that it
\* asks for between 1 and 100 rows
C28_RangeWellFormed ==
    RangeSent =>
        /\ listing.range.first >= 0
        /\ listing.range.last >= listing.range.first
        /\ listing.range.last - listing.range.first + 1 \in 1..MaxLimit

(***************************************************************************)
(* The CopilotChat component of the client.  copilot holds the component's *)
(* React state (messages, input, isLoading), the company prop, the value   *)
(* of isLoading the last render gave to the handlers and to the button     *)
(* (shown), and the sendChatMessage calls that have not settled (calls).   *)
(* A state update made inside a click, key or change handler is rendered   *)
(* before the next event; an update made after the await is rendered by a  *)
(* later step of the scheduler.  last is the last thing that happened to   *)
(* the component ("returned": handleSend returned at its guard; "sent": it *)
(* reached its await; "fulfilled", "rejected": it resumed after the await).*)
(* The id of a message (Date.now()) is left out.                           *)
(***************************************************************************)
\* The most sends and the most company selections of one run
MaxSends == 2

MaxSelections == 1

\* What the user can leave in the textarea
TypedTexts == { <<>>, <<" ", " ">>, <<" ", "a", "i", " ">> }

\* company = null
NullCompany == [id |-> 0]

\* The company prop: null or a company of the portfolio
CompanyProps == { NullCompany, Company(1) }

Greeting == [role |-> "assistant", content |-> <<"Hello! I'm your Portfolio Copilot.">>]

\* The message the effect on [company] appends
ContextMessage(company) ==
    [role |-> "assistant",
     content |-> <<"I see you've selected **">> \o company.name \o <<"**. ">>
                 \o (IF company.radical_primary_category # Null
                     THEN <<"This is a company in the ">>
                          \o company.radical_primary_category \o <<" space.">>
                     ELSE <<"This is one of our portfolio companies.">>)
                 \o <<" ">>
                 \o (IF company.description # Null
                     THEN <<"They focus on: ">> \o slice(company.description, 100)
                          \o <<"...">>
                     ELSE <<>>)
                 \o <<" What would you like to know about them?">>]

\* useEffect(() => { if (company) setMessages((prev) => [...prev, contextMessage]) }, [company])
OnCompany(st, company) ==
    [st EXCEPT !.company = company,
               !.last = "company",
               !.selections = st.selections + 1,
               !.messages = IF company # NullCompany
                            THEN Append(st.messages, ContextMessage(company))
                            ELSE st.messages]

\* The component after its first render and its effects
Mounted(company) ==
    OnCompany([pc |-> "mounted", company |-> NullCompany, selections |-> 0 - 1,
               messages |-> <<Greeting>>, input |-> <<>>, isLoading |-> FALSE,
               shown |-> FALSE, calls |-> <<>>, sends |-> 0, last |-> "mount"],
              company)

\* What the network and the server can make of one POST /api/chat
FetchOutcomes ==
    { [kind |-> "response", ok |-> TRUE, statusText |-> <<"OK">>,
       json |-> [answer |-> <<"Acme builds bots.">>]],
      [kind |-> "response", ok |-> FALSE, statusText |-> <<"Internal Server Error">>,
       json |-> [answer |-> <<>>]],
      [kind |-> "rejected", ok |-> FALSE, statusText |-> <<>>,
       json |-> [answer |-> <<>>]] }

\* sendChatMessage: the promise resolves with the body of an ok response
\* and rejects with an Error otherwise
sendChatMessage(outcome) ==
    IF outcome.kind = "rejected"
    THEN [settled |-> "rejected", message |-> <<"Failed to fetch">>]
    ELSE IF ~outcome.ok
    THEN [settled |-> "rejected",
          message |-> <<"Failed to send chat message: ">> \o outcome.statusText]
    ELSE [settled |-> "fulfilled", response |-> outcome.json]

\* handleSend without its test of isLoading
handleSend_WhileLoading(st) ==
    IF trim(st.input) = <<>> THEN [st EXCEPT !.last = "returned"]
    ELSE [st EXCEPT
            !.messages = Append(st.messages, [role |-> "user", content |-> st.input]),
            !.input = <<>>,
            !.isLoading = TRUE,
            !.shown = TRUE,
            !.sends = st.sends + 1,
            !.last = "sent",
            !.calls = Append(st.calls,
                             [message |-> st.input,
                              selectedCompanySlug |->
                                  IF st.company # NullCompany THEN st.company.slug ELSE Null,
                              topK |-> DefaultTopK])]

\* handleSend up to its await: the handler reads the input and the
\* isLoading of the last render
handleSend(st) ==
    IF trim(st.input) = <<>> \/ st.shown THEN [st EXCEPT !.last = "returned"]
    ELSE [st EXCEPT
            !.messages = Append(st.messages, [role |-> "user", content |-> st.input]),
            !.input = <<>>,
            !.isLoading = TRUE,
            !.shown = TRUE,
            !.sends = st.sends + 1,
            !.last = "sent",
            !.calls = Append(st.calls,
                             [message |-> st.input,
                              selectedCompanySlug |->
                                  IF st.company # NullCompany THEN st.company.slug ELSE Null,
                              topK |-> DefaultTopK])]

\* handleKeyDown
handleKeyDown(st, key, shiftKey) ==
    IF key = "Enter" /\ ~shiftKey THEN handleSend(st) ELSE [st EXCEPT !.last = "key"]

\* The text of the assistant message of a settled call
AssistantContent(result) ==
    IF result.settled = "fulfilled" THEN result.response.answer
    ELSE <<"Sorry, I encountered an error: ">> \o result.message
         \o <<". Please try again.">>

\* All but the k-th
Without(seq, k) == SubSeq(seq, 1, k - 1) \o SubSeq(seq, k + 1, Len(seq))

\* handleSend after its await, with isLoading reset on the try path only
Resumed_NoFinally(st, k, result) ==
    [st EXCEPT
       !.messages = Append(st.messages,
                           [role |-> "assistant", content |-> AssistantContent(result)]),
       !.isLoading = IF result.settled = "fulfilled" THEN FALSE ELSE st.isLoading,
       !.last = result.settled,
       !.calls = Without(st.calls, k)]

\* handleSend after its await: try, catch and finally
Resumed(st, k, result) ==
    [st EXCEPT
       !.messages = Append(st.messages,
                           [role |-> "assistant", content |-> AssistantContent(result)]),
       !.isLoading = FALSE,
       !.last = result.settled,
       !.calls = Without(st.calls, k)]

\* disabled={!input.trim() || isLoading}
ButtonDisabled(st) == trim(st.input) = <<>> \/ st.shown

InitCopilot ==
    /\ copilot \in {Mounted(company) : company \in CompanyProps}
    /\ companies = <<>> /\ embedded = {} /\ env = FullEnv
    /\ req = [r \in Reqs |-> IdleReq]
    /\ decoder = Off /\ summary = Off /\ listing = Off /\ importer = Off

SetCopilot(st) ==
    copilot' = st
    /\ UNCHANGED <<companies, embedded, env, req, decoder, summary, listing, importer>>

\* onChange={(e) => setInput(e.target.value)}
Type ==
    /\ copilot.pc = "mounted"
    /\ \E text \in TypedTexts :
           SetCopilot([copilot EXCEPT !.input = text, !.last = "change"])

\* onClick={handleSend}: a disabled button fires no click
Click ==
    /\ copilot.sends < MaxSends
    /\ ~ButtonDisabled(copilot)
    /\ SetCopilot(handleSend(copilot))

\* onKeyDown={handleKeyDown}
KeyDown ==
    /\ copilot.sends < MaxSends
    /\ \E key \in {"Enter", "a"}, shiftKey \in BOOLEAN :
           SetCopilot(handleKeyDown(copilot, key, shiftKey))

\* The parent selects another company
SelectCompany ==
    /\ copilot.selections < MaxSelections
    /\ \E company \in CompanyProps \ {copilot.company} :
           SetCopilot(OnCompany(copilot, company))

\* A call settles and its handleSend resumes
Settle ==
    \E k \in 1..Len(copilot.calls), outcome \in FetchOutcomes :
        SetCopilot(Resumed(copilot, k, sendChatMessage(outcome)))

\* The scheduler renders the updates made after the await
Render ==
    /\ copilot.shown # copilot.isLoading
    /\ SetCopilot([copilot EXCEPT !.shown = copilot.isLoading, !.last = "render"])

NextCopilot == Type \/ Click \/ KeyDown \/ SelectCompany \/ Settle \/ Render

SpecCopilot == InitCopilot /\ [][NextCopilot]_vars

\* The calls started by the component that have not settled
Unsettled == Len(copilot.calls)

\* The user messages of the conversation
UserMessages(st) == SelectSeq(st.messages, LAMBDA m : m.role = "user")

\* The handler saw a request loading or a blank input
Guarded(st) == st.shown \/ trim(st.input) = <<>>

\* C29: while a request is loading or the input is blank handleSend does
\* nothing (no call, no message, no change of the input or of isLoading),
\* and at most one sendChatMessage call of the component is unsettled at
\* any time
C29_OneCallAtATime ==
    /\ [](Unsettled <= 1)
    /\ [][ /\ Guarded(copilot) \/ copilot.isLoading => copilot'.last # "sent"
           /\ copilot'.last = "returned" =>
                  /\ Guarded(copilot)
                  /\ copilot' = [copilot EXCEPT !.last = "returned"] ]_vars

\* handleSend has just returned at its guard with a message typed while a
\* call is unsettled
C29_Witness ==
    /\ copilot.pc = "mounted"
    /\ copilot.last = "returned"
    /\ Unsettled = 1
    /\ trim(copilot.input) # <<>>

\* The texts an assistant message can take from a settled call
AnswerContents == {AssistantContent(sendChatMessage(outcome)) : outcome \in FetchOutcomes}

\* The user messages and the assistant messages of settled calls, in the
\* order of the conversation (the greeting and the context messages of the
\* company effect left out)
Exchange(st) ==
    SelectSeq(st.messages,
              LAMBDA m : m.role = "user" \/ m.content \in AnswerContents)

\* Every user message but a last unanswered one is followed by exactly one
\* assistant message of a settled call, before the next user message
Answered(st) ==
    /\ Len(Exchange(st)) = 2 * st.sends - Len(st.calls)
    /\ \A i \in 1..Len(Exchange(st)) :
           Exchange(st)[i].role = IF i % 2 = 1 THEN "user" ELSE "assistant"

\* handleSend reached its await in this step
Sends == copilot'.last = "sent" /\ copilot'.sends = copilot.sends + 1

\* a call settled in this step
Settles == Len(copilot'.calls) < Len(copilot.calls)

\* C30: a send that passes the guard appends exactly one message, the user
\* message with the input; the settling of its call appends exactly one
\* message, an assistant message with the answer on success and the error
\* text on failure, after that user message; isLoading is true exactly
\* while the call is unsettled, so it is false once the call has settled
C30_SendThenOneAnswer ==
    /\ [](copilot.isLoading <=> Unsettled > 0)
    /\ [](Answered(copilot))
    /\ [][ /\ Sends =>
                /\ copilot'.messages =
                       Append(copilot.messages,
                              [role |-> "user", content |-> copilot.input])
                /\ copilot'.isLoading
           /\ Settles =>
                /\ Len(copilot'.messages) = Len(copilot.messages) + 1
                /\ SubSeq(copilot'.messages, 1, Len(copilot.messages)) = copilot.messages
                /\ copilot'.messages[Len(copilot'.messages)].role = "assistant"
                /\ copilot'.last = "fulfilled" =>
                       copilot'.messages[Len(copilot'.messages)].content
                           \in {outcome.json.answer : outcome \in
                                  {o \in FetchOutcomes : o.kind = "response" /\ o.ok}}
                /\ copilot'.last = "rejected" =>
                       Head(copilot'.messages[Len(copilot'.messages)].content)
                           = "Sorry, I encountered an error: "
                /\ ~copilot'.isLoading
           /\ ~Sends /\ ~Settles =>
                /\ UserMessages(copilot') = UserMessages(copilot)
                /\ Exchange(copilot') = Exchange(copilot) ]_vars

\* A call has just failed: its error text is the last message and the
\* component is no longer loading
C30_Witness ==
    /\ copilot.pc = "mounted"
    /\ copilot.last = "rejected"
    /\ copilot.sends >= 1
    /\ Unsettled = 0
    /\ ~copilot.isLoading
    /\ copilot.messages[Len(copilot.messages)].role = "assistant"
    /\ copilot.messages[Len(copilot.messages) - 1].role = "user"

=============================================================================
